---- MODULE Spec2Model ----
(***************************************************************************)
(* Remote Deployment Orchestrator of ServiceDeploymentManager.             *)
(*                                                                         *)
(* The model follows the control flow of                                   *)
(*   app/vm_manager/spot_vm_manager.py   (SpotVMManager)                   *)
(*   app/vm_manager/spot_vm_creator.py   (SpotVMCreator)                   *)
(*   app/routes/vm.py                    (ensure-VM job)                   *)
(*   app/routes/docker.py                (build-and-deploy job)            *)
(*   app/docker/docker_compose_remote_vm_utils.py, docker_context_manager  *)
(*                                                                         *)
(* Modelling level.  The model is a control-flow model: a value returned   *)
(* by one function is read by its caller through the fields the caller     *)
(* names (existing_vm.private_ip reads the 'private_ip' entry of the       *)
(* details returned by get_vm_details; "await f(...)" continues with the   *)
(* caller once f has run).  Dynamic type errors of the Python build are    *)
(* outside the model.                                                      *)
(*                                                                         *)
(* Names are tuples of one-character strings, so that the cleaning done by *)
(* get_user_vm_name is computed and not assumed.                           *)
(***************************************************************************)
EXTENDS Integers, Sequences, FiniteSets, TLC

(***************************************************************************)
(* Bounds of the model.                                                    *)
(***************************************************************************)
\* creations of one VM name that a behaviour may contain
MaxCreates == 2
\* usable host addresses of the configured subnet (network.hosts())
SubnetHosts == 14
\* host bits of the largest subnet _generate_static_ip is called with
MaxHostBits == 5
\* characters after "vm-" of the longest name it is called with
MaxNameLen == 3
\* reads of the cloud API that may fail in one behaviour for another reason
\* than the resource not being found
MaxFaults == 2
\* images of a project a VM holds at most
MaxImages == 2

(***************************************************************************)
(* Program constants.                                                      *)
(***************************************************************************)
\* spot_vm_manager.py:42-43  "[:64]  # Azure VM name limit"
NameLimit == 64
\* spot_vm_creator.py:484  start_index = 10
StartIndex == 10
\* spot_vm_creator.py:505  ip_suffix = 100 + (hash_int % 155)
FallbackBase == 100
FallbackSpan == 155
\* routes/vm.py:87  while not result and tries <= 15
MaxTries == 15
\* spot_vm_creator.py:284  def _wait_for_vm_running(self, vm_name, timeout=300)
WaitTimeout == 300
\* spot_vm_creator.py:294  time.sleep(10)
PollInterval == 10

(***************************************************************************)
(* Characters and names.                                                   *)
(***************************************************************************)
UpperCase == {"A", "B"}
LowerCase == {"a", "b", "c", "g", "l", "m", "o", "s", "v", "w"}
Digits == {"1"}

\* str.isalnum() on one character
IsAlnum(c) == c \in UpperCase \cup LowerCase \cup Digits

\* str.lower() on one character
LowerChar(c) == CASE c = "A" -> "a" [] c = "B" -> "b" [] OTHER -> c

RECURSIVE CleanId(_)
\* ''.join(c for c in s if c.isalnum() or c == '-').lower()
CleanId(s) ==
    IF s = <<>> THEN <<>>
    ELSE IF IsAlnum(Head(s)) \/ Head(s) = "-"
         THEN <<LowerChar(Head(s))>> \o CleanId(Tail(s))
         ELSE CleanId(Tail(s))

\* s[:n]
Truncate(s, n) == IF Len(s) <= n THEN s ELSE SubSeq(s, 1, n)

\* SpotVMManager.get_user_vm_name(user_id, workspace_id, use_workspace)
get_user_vm_name(user_id, workspace_id, use_workspace) ==
    IF workspace_id # <<>> /\ use_workspace
    THEN Truncate(<<"v", "m", "-">> \o CleanId(user_id) \o <<"-">> \o CleanId(workspace_id), NameLimit)
    ELSE Truncate(<<"v", "m", "-">> \o CleanId(user_id), NameLimit)

\* the tenants and workspaces of the model
Users == {<<"A", "l", "@", "1">>}
Workspaces == {<<"B", "l", "o", "g">>}
WsKeys == Users \X Workspaces

\* every call site passes (user_id, workspace_id) and leaves use_workspace at
\* its default, False
VmNameOf(user_id, workspace_id) == get_user_vm_name(user_id, workspace_id, FALSE)
VmNames == {VmNameOf(k[1], k[2]) : k \in WsKeys}

(***************************************************************************)
(* Context and deployment names (app/docker/helper_functions.py).          *)
(***************************************************************************)
RECURSIVE Without(_, _)
\* s.replace(c, "")
Without(s, c) ==
    IF s = <<>> THEN <<>>
    ELSE IF Head(s) = c THEN Without(Tail(s), c) ELSE <<Head(s)>> \o Without(Tail(s), c)

RECURSIVE Before(_, _)
\* s.split(c)[0]
Before(s, c) ==
    IF s = <<>> \/ Head(s) = c THEN <<>> ELSE <<Head(s)>> \o Before(Tail(s), c)

RECURSIVE OnlyAlnum(_)
\* "".join(c for c in s if c.isalnum())
OnlyAlnum(s) ==
    IF s = <<>> THEN <<>>
    ELSE IF IsAlnum(Head(s)) THEN <<Head(s)>> \o OnlyAlnum(Tail(s)) ELSE OnlyAlnum(Tail(s))

RECURSIVE LowerDashed(_)
\* s.lower().replace(' ', '-')
LowerDashed(s) ==
    IF s = <<>> THEN <<>>
    ELSE <<IF Head(s) = " " THEN "-" ELSE LowerChar(Head(s))>> \o LowerDashed(Tail(s))

\* extract_user_id(user_id)
extract_user_id(user_id) == Before(Without(user_id, "."), "@")

\* generate_context_name_from_user_workspace(username, workspace_name)
generate_context_name_from_user_workspace(username, workspace_name) ==
    <<"w", "s", "-">> \o OnlyAlnum(extract_user_id(username)) \o <<"-">> \o OnlyAlnum(workspace_name)

\* generate_unique_name(project_base_path, username), the project path being
\* DockerConfig.get_project_dir(username, workspace_name), whose last part is
\* the workspace name
generate_unique_name(workspace_name, username) ==
    LowerDashed(workspace_name) \o <<"-">> \o extract_user_id(username)

\* generate_project_name_from_user_workspace(username, workspace_name)
generate_project_name_from_user_workspace(username, workspace_name) ==
    LowerDashed(workspace_name) \o <<"-">> \o extract_user_id(username)

ContextNames == {generate_context_name_from_user_workspace(k[1], k[2]) : k \in WsKeys}
ProjectNames == {generate_unique_name(k[2], k[1]) : k \in WsKeys}

(***************************************************************************)
(* Static private IP (SpotVMCreator._generate_static_ip).                  *)
(***************************************************************************)
CharCode(c) ==
    CASE c = "a" -> 1 [] c = "b" -> 2 [] c = "c" -> 3 [] c = "g" -> 7
      [] c = "l" -> 12 [] c = "o" -> 15 [] c = "v" -> 22 [] c = "m" -> 13
      [] c = "1" -> 27 [] c = "-" -> 28 [] OTHER -> 29

RECURSIVE NameDigest(_)
\* int(hashlib.md5(vm_name.encode()).hexdigest()[:8], 16): a fixed function
\* of the name; the digest is stood in for by a positional checksum
NameDigest(s) ==
    IF s = <<>> THEN 7 ELSE (31 * NameDigest(Tail(s)) + CharCode(Head(s))) % 65536

NoIp == [net |-> "none", host |-> 0]

\* no call of _generate_static_ip under way
NoCall == [vm_name |-> <<>>, subnet |-> [base |-> "none", hosts |-> 0], first |-> NoIp,
           second |-> NoIp]

\* host is the 0-based index into list(network.hosts()) on the subnet path and
\* the last octet of 10.0.0.x on the fallback path
_generate_static_ip(vm_name, hosts) ==
    IF hosts - StartIndex > 0
    THEN [net |-> "subnet", host |-> StartIndex + (NameDigest(vm_name) % (hosts - StartIndex))]
    ELSE [net |-> "fallback", host |-> FallbackBase + (NameDigest(vm_name) % FallbackSpan)]

(***************************************************************************)
(* Values.                                                                 *)
(***************************************************************************)
\* the VM details dictionary (get_vm_details / create_spot_vm) and the
\* persisted VMConfig; None stands for Python's None
None == [vm_name |-> <<>>, private_ip |-> NoIp, status |-> "none"]

\* 'disk' and 'nic' tell of the VM's OS disk and network interface: "none"
\* when there is none, "there" when it exists, "orphan" when its deletion was
\* tried and failed
NoVm == [power |-> "absent", ip |-> NoIp, gen |-> 0, cloud_init |-> FALSE, docker |-> FALSE,
         disk |-> "none", nic |-> "none", containers |-> 0, images |-> 0]

\* VMInfoResult(ip, vm_name, vm_status)
VMInfoResult(ip, vm_name, vm_status) == [ip |-> ip, vm_name |-> vm_name, vm_status |-> vm_status]
NoResult == VMInfoResult(NoIp, <<>>, "none")

\* DockerContextResult(context_name, ip)
NoContext == [context_name |-> <<>>, ip |-> NoIp]
\* the build-and-deploy job as the job table shows it
\* 'detail' is the kind of text the metadata's error holds, 'label' what the
\* build-failure classifier answered, 'deploy_info' what the deploy returned,
\* 'files_at_start' the routing files there were when the job started
NoDeployInfo == [container_name |-> <<>>, urls |-> <<>>]
NoBuildDeploy ==
    [status |-> "none", error |-> "none", server_error |-> FALSE, writes |-> <<>>,
     detail |-> "none", label |-> "none", deploy_info |-> NoDeployInfo,
     files_at_start |-> {}]

NoArgs == [user_id |-> <<>>, workspace_id |-> <<>>, force_recreate |-> FALSE, caller |-> "none"]

VARIABLES
    cloud,        \* the cloud: VM name -> power state, NIC address, software state
    workspaces,   \* the workspace table: (username, workspace_name) -> vm_config
    pc,           \* position of the allocate_or_reuse_vm invocation / of the job
    args,         \* arguments of the invocation
    existing_vm,  \* its local existing_vm / updated_vm / vm_config
    path,         \* the branch it took: reuse, restart, create, recreate or heal
    result,       \* the VMInfoResult it returned
    issued,       \* the calls it has issued so far, in order
    pre,          \* the VM as it was when the invocation started
    job,          \* the ensure-VM job: status, tries, readiness, output
    probe,        \* the last readiness check: its answer and what it saw
    contexts,     \* the Docker contexts of this host: context name -> address
    routes,       \* the published routing files: deployment name -> content
    bd,           \* the build-and-deploy job: status, metadata, status writes
    ran,          \* what the build-and-deploy invocation has run, in order
    bound,        \* the context the deploy stage is bound to
    services_ports, \* the service ports the deploy stage resolved
    call,         \* a call made on its own: its arguments and its results
    faults,       \* failures the cloud API may still answer its reads with
    waited,       \* seconds _wait_for_vm_running has waited so far
    user_workspace_collection, \* the stored workspace documents, in insertion order
    requests,     \* the create-workspace requests in flight: position, body, response
    other         \* a second allocate_or_reuse_vm invocation for the same workspace

pipe == <<contexts, routes, bd, ran, bound, services_ports>>
\* what the operations on one function call keep
aux == <<call, faults, waited>>
\* what the VM and deployment operations leave alone
more == <<user_workspace_collection, requests, other>>
vars == <<cloud, workspaces, pc, args, existing_vm, path, result, issued, pre, job, probe,
          contexts, routes, bd, ran, bound, services_ports, call, faults, waited,
          user_workspace_collection, requests, other>>

(***************************************************************************)
(* SpotVMCreator: reads.                                                   *)
(***************************************************************************)
\* Every read of the cloud API is answered or fails; a read that fails for
\* another reason than the resource not being found is a transient failure.
\* The outcomes of n reads in a row, as many of them failing as the cloud may
\* still fail:
Failures(answered) == Cardinality({i \in DOMAIN answered : ~answered[i]})
ReadOutcomes(n) == {answered \in [1..n -> BOOLEAN] : Failures(answered) <= faults}

\* vm_exists(vm_name): False when the VM is not found and when the read fails
vm_exists(vm_name, answered) == answered /\ cloud[vm_name].power # "absent"

\* get_vm_status on VM record vm: the power state; None when the VM is not
\* found and when the read fails
StatusOf(vm, answered) ==
    IF ~answered \/ vm.power = "absent" THEN "none" ELSE vm.power

\* get_vm_status(vm_name)
get_vm_status(vm_name, answered) == StatusOf(cloud[vm_name], answered)

\* the dictionary of a VM with every read answered
DetailsOf(vm_name, vm) ==
    IF vm.power = "absent" THEN None
    ELSE [vm_name |-> vm_name, private_ip |-> vm.ip, status |-> vm.power]

\* get_vm_details on VM record vm: None when the VM is not found and when the
\* read of the VM or of its NIC fails; the status comes from get_vm_status
DetailsRead(vm_name, vm, answered) ==
    IF ~answered[1] \/ vm.power = "absent" THEN None
    ELSE [vm_name |-> vm_name, private_ip |-> vm.ip, status |-> StatusOf(vm, answered[2])]

\* the outcomes of the two reads of get_vm_details on VM record vm: the status
\* is read only when the VM was found
DetailsReads(vm) ==
    {answered \in ReadOutcomes(2) : ~answered[2] => (answered[1] /\ vm.power # "absent")}

\* get_vm_details(vm_name)
get_vm_details(vm_name, answered) == DetailsRead(vm_name, cloud[vm_name], answered)

\* SpotVMManager.check_user_vm_allocation
check_user_vm_allocation(user_id, workspace_id, answered) ==
    get_vm_details(VmNameOf(user_id, workspace_id), answered)

\* variant of is_vm_running that takes a deallocated VM for a running one
is_vm_running_deallocated(vm_name, answered) == get_vm_status(vm_name, answered) = "deallocated"

\* SpotVMManager.is_vm_running
is_vm_running(vm_name, answered) == get_vm_status(vm_name, answered) = "running"

NoJob == [status |-> "none", tries |-> 0, ready |-> FALSE, output |-> NoResult,
          error |-> "none", allocations |-> 0, checks |-> 0]
NoProbe == [answer |-> FALSE, power |-> "absent", cloud_init |-> FALSE, docker |-> FALSE,
            c1 |-> "none", c2 |-> "none", n |-> 0]

\* the create-workspace requests that may be in flight together
MaxRequests == 2
Requests == 1..MaxRequests
NoRequest == [pc |-> "none", username |-> <<>>, workspace_name |-> <<>>, status_code |-> 0,
              existing |-> FALSE]
\* the locals of the second invocation before it is made
NoOther == [pc |-> "idle", args |-> NoArgs, existing_vm |-> None, path |-> "none",
            result |-> NoResult, issued |-> <<>>, pre |-> NoVm]

\* the state after construction, but for the inputs of a specification
Fresh ==
    /\ cloud = [n \in VmNames |-> NoVm]
    /\ workspaces = [k \in WsKeys |-> None]
    /\ pc = "idle"
    /\ args = NoArgs
    /\ existing_vm = None
    /\ path = "none"
    /\ result = NoResult
    /\ issued = <<>>
    /\ pre = NoVm
    /\ job = NoJob
    /\ probe = NoProbe
    /\ contexts = [c \in ContextNames |-> NoIp]
    /\ routes = {}
    /\ bd = NoBuildDeploy
    /\ ran = <<>>
    /\ bound = NoContext
    /\ services_ports = <<>>
    /\ waited = 0
    /\ user_workspace_collection = <<>>
    /\ requests = [r \in Requests |-> NoRequest]
    /\ other = NoOther

Init ==
    /\ Fresh
    /\ call = NoCall
    /\ faults = 0

\* an invocation's locals are gone once its caller has taken its outcome
Forget ==
    /\ pc' = "idle"
    /\ args' = NoArgs
    /\ existing_vm' = None
    /\ path' = "none"
    /\ result' = NoResult
    /\ issued' = <<>>
    /\ pre' = NoVm
    /\ waited' = 0

\* the VM name the running invocation works on (spot_vm_manager.py:82-83)
vm_name == VmNameOf(args.user_id, args.workspace_id)
wsKey == <<args.user_id, args.workspace_id>>

(***************************************************************************)
(* SpotVMManager.allocate_or_reuse_vm                                      *)
(***************************************************************************)
\* entry of allocate_or_reuse_vm: the state every invocation starts from
EnterAllocate(u, w, force, caller) ==
    /\ cloud[VmNameOf(u, w)].gen < MaxCreates
    /\ pc' = "check"
    /\ args' = [user_id |-> u, workspace_id |-> w, force_recreate |-> force, caller |-> caller]
    /\ existing_vm' = None
    /\ path' = "none"
    /\ result' = NoResult
    /\ issued' = <<>>
    /\ pre' = cloud[VmNameOf(u, w)]
    /\ waited' = 0

\* a direct call of allocate_or_reuse_vm (ensure_user_vm, spot_vm_manager.py:343)
AllocateOrReuseVm(u, w, force) ==
    /\ pc = "idle"
    /\ EnterAllocate(u, w, force, "direct")
    /\ UNCHANGED <<call, more, faults, cloud, workspaces, job, probe, pipe>>

\* lines 89-91, 129: existing_vm = check_user_vm_allocation(...) and the branch
CheckAllocation ==
    /\ pc = "check"
    /\ \E answered \in DetailsReads(cloud[vm_name]) :
         /\ existing_vm' = check_user_vm_allocation(args.user_id, args.workspace_id, answered)
         /\ faults' = faults - Failures(answered)
    /\ IF existing_vm' # None /\ ~args.force_recreate
       THEN pc' = "is_running" /\ path' = path
       ELSE IF args.force_recreate /\ existing_vm' # None
            THEN pc' = "delete" /\ path' = "recreate"
            ELSE pc' = "create" /\ path' = "create"
    /\ UNCHANGED <<call, more, waited, cloud, workspaces, args, result, issued, pre, job, probe, pipe>>

\* line 94: if self.is_vm_running(vm_name)
CheckRunning ==
    /\ pc = "is_running"
    /\ \E answered \in ReadOutcomes(1) :
         /\ faults' = faults - Failures(answered)
         /\ IF is_vm_running(vm_name, answered[1])
            THEN pc' = "persist" /\ path' = "reuse"
            ELSE pc' = "start" /\ path' = path
    /\ UNCHANGED <<call, more, waited, cloud, workspaces, args, existing_vm, result, issued, pre, job, probe, pipe>>

\* variant of StartVm in which a failed start is raised to the caller
StartVmSurfacing ==
    /\ pc = "start"
    /\ issued' = Append(issued, "start")
    /\ \E started \in BOOLEAN, answered \in DetailsReads(cloud[vm_name]) :
         IF started
         THEN /\ cloud' = [cloud EXCEPT ![vm_name].power = "running"]
              /\ existing_vm' = DetailsRead(vm_name, cloud'[vm_name], answered)
              /\ faults' = faults - Failures(answered)
              /\ path' = "restart"
              /\ pc' = "persist"
         ELSE /\ pc' = "raised"
              /\ path' = "heal"
              /\ answered = <<TRUE, TRUE>>
              /\ UNCHANGED <<cloud, existing_vm, faults>>
    /\ UNCHANGED <<call, more, waited, workspaces, args, result, pre, job, probe, pipe>>

\* lines 111-112: start_vm (spot_vm_creator.py:255-269) and, when it returned
\* True, updated_vm = get_vm_details(vm_name).  start_vm returns False when
\* begin_start raises or _wait_for_vm_running times out.
StartVm ==
    /\ pc = "start"
    /\ issued' = Append(issued, "start")
    /\ \E started \in BOOLEAN, answered \in DetailsReads(cloud[vm_name]) :
         IF started
         THEN /\ cloud' = [cloud EXCEPT ![vm_name].power = "running"]
              /\ existing_vm' = DetailsRead(vm_name, cloud'[vm_name], answered)
              /\ faults' = faults - Failures(answered)
              /\ path' = "restart"
              /\ pc' = "persist"
         ELSE /\ pc' = "delete"
              /\ path' = "heal"
              /\ answered = <<TRUE, TRUE>>
              /\ UNCHANGED <<cloud, existing_vm, faults>>
    /\ UNCHANGED <<call, more, waited, workspaces, args, result, pre, job, probe, pipe>>

\* what deleting a resource leaves of it
Leftover(deleted) == IF deleted THEN "none" ELSE "orphan"

\* variant of delete_spot_vm that gives up when the OS disk cannot be deleted
delete_spot_vm_giving_up(vm, deleted, disk, nic) ==
    IF ~deleted THEN [raised |-> TRUE, vm |-> vm]
    ELSE IF ~disk
    THEN [raised |-> TRUE,
          vm |-> [NoVm EXCEPT !.gen = vm.gen, !.disk = Leftover(disk), !.nic = vm.nic]]
    ELSE [raised |-> FALSE,
          vm |-> [NoVm EXCEPT !.gen = vm.gen, !.disk = Leftover(disk), !.nic = Leftover(nic)]]

\* SpotVMCreator.delete_spot_vm (spot_vm_creator.py:388-423) on VM record vm,
\* with the outcomes of its three deletions: a failure to read or delete the
\* VM is raised (lines 421-423); the deletions of the OS disk and of the NIC
\* are tried one after the other, each failure logged (lines 403-420)
delete_spot_vm(vm, deleted, disk, nic) ==
    IF ~deleted THEN [raised |-> TRUE, vm |-> vm]
    ELSE [raised |-> FALSE,
          vm |-> [NoVm EXCEPT !.gen = vm.gen, !.disk = Leftover(disk), !.nic = Leftover(nic)]]

\* lines 127-128 and 131-132: the call of delete_spot_vm
DeleteSpotVm ==
    /\ pc = "delete"
    /\ issued' = Append(issued, "delete")
    /\ \E deleted, disk, nic \in BOOLEAN :
         LET d == delete_spot_vm(cloud[vm_name], deleted, disk, nic)
         IN  /\ deleted \/ (disk /\ nic)
             /\ cloud' = [cloud EXCEPT ![vm_name] = d.vm]
             /\ pc' = IF d.raised THEN "raised" ELSE "create"
    /\ UNCHANGED <<aux, more, workspaces, args, existing_vm, path, result, pre, job, probe, pipe>>

\* variant of NewVm whose address is handed out dynamically, one per creation
NewVmDynamicIp(name, old) ==
    [power |-> "running", ip |-> [net |-> "subnet", host |-> StartIndex + old.gen],
     gen |-> old.gen + 1, cloud_init |-> FALSE, docker |-> FALSE,
     disk |-> "there", nic |-> "there", containers |-> 0, images |-> 0]

\* the VM create_spot_vm brings up (spot_vm_creator.py:90-187)
NewVm(name, old) ==
    [power |-> "running", ip |-> _generate_static_ip(name, SubnetHosts),
     gen |-> old.gen + 1, cloud_init |-> FALSE, docker |-> FALSE,
     disk |-> "there", nic |-> "there", containers |-> 0, images |-> 0]

\* begin_create_or_update of the NIC and of the VM (lines 107-161): a VM that
\* is there already is updated with the parameters it was created with
CreateOrUpdate(name, old) == IF old.power = "absent" THEN NewVm(name, old) ELSE old

\* spot_vm_creator.py:59-61: the VM exists already, create_spot_vm returns
\* self.get_vm_details(vm_name)
ReturnExistingVm ==
    \E answered \in DetailsReads(cloud[vm_name]) :
      /\ faults' = faults - Failures(answered)
      /\ existing_vm' = get_vm_details(vm_name, answered)
      /\ pc' = "persist"
      /\ UNCHANGED <<cloud, issued>>

\* lines 137-141: create_spot_vm (spot_vm_creator.py:52-191).  It returns the
\* details of a VM that vm_exists reports; it raises when a step before the
\* VM's creation fails, and when the VM is not running within the timeout.
CreateSpotVm ==
    /\ pc = "create"
    /\ \E exists \in ReadOutcomes(1) :
         IF vm_exists(vm_name, exists[1])
         THEN ReturnExistingVm
         ELSE /\ faults' = faults - Failures(exists)
              /\ \E outcome \in {"created", "error", "timeout"} :
                   CASE outcome = "created" ->
                          /\ cloud[vm_name].power \in {"absent", "running"}
                          /\ cloud' = [cloud EXCEPT ![vm_name] = CreateOrUpdate(vm_name, cloud[vm_name])]
                          /\ existing_vm' = [vm_name |-> vm_name, private_ip |-> cloud'[vm_name].ip,
                                             status |-> "running"]
                          /\ issued' = Append(issued, "create")
                          /\ pc' = "persist"
                     [] outcome = "error" ->
                          /\ pc' = "raised"
                          /\ UNCHANGED <<cloud, existing_vm, issued>>
                     [] outcome = "timeout" ->
                          /\ cloud' = [cloud EXCEPT ![vm_name] =
                                         [CreateOrUpdate(vm_name, cloud[vm_name])
                                            EXCEPT !.power = "deallocated"]]
                          /\ issued' = Append(issued, "create")
                          /\ pc' = "raised"
                          /\ UNCHANGED existing_vm
    /\ UNCHANGED <<call, more, waited, workspaces, args, path, result, pre, job, probe, pipe>>

\* SpotVMCreator.update_workspace_table (spot_vm_creator.py:327-385): writes
\* vm_config onto the workspace; a failed write, and the failure to read the
\* entries of a vm_config that is None, is logged and reported as False, which
\* allocate_or_reuse_vm does not read (lines 98, 115, 144)
update_workspace_table(key, vm_config, written) ==
    IF written /\ vm_config # None THEN [workspaces EXCEPT ![key] = vm_config] ELSE workspaces

\* lines 97-98, 114-115, 143-144
UpdateWorkspaceTable ==
    /\ pc = "persist"
    /\ \E written \in BOOLEAN :
         workspaces' = update_workspace_table(wsKey, existing_vm, written)
    /\ issued' = Append(issued, "persist")
    /\ pc' = "cleanup"
    /\ UNCHANGED <<aux, more, cloud, args, existing_vm, path, result, pre, job, probe, pipe>>

\* variant of CleanupAndReturn that returns without the Docker cleanup
ReturnWithoutCleanup ==
    /\ pc = "cleanup"
    /\ IF existing_vm = None
       THEN result' = result /\ pc' = "raised"
       ELSE /\ result' = VMInfoResult(existing_vm.private_ip, existing_vm.vm_name,
                                      existing_vm.status)
            /\ pc' = "returned"
    /\ UNCHANGED <<aux, more, cloud, workspaces, args, existing_vm, path, issued, pre, job, probe, pipe>>

\* lines 101-107, 118-124, 149-155: _perform_vm_docker_cleanup (never raises,
\* lines 355-376) and the return of the VMInfoResult, which raises when the
\* details it reads are None
CleanupAndReturn ==
    /\ pc = "cleanup"
    /\ issued' = Append(issued, "cleanup")
    /\ IF existing_vm = None
       THEN result' = result /\ pc' = "raised"
       ELSE /\ result' = VMInfoResult(existing_vm.private_ip, existing_vm.vm_name,
                                      existing_vm.status)
            /\ pc' = "returned"
    /\ UNCHANGED <<aux, more, cloud, workspaces, args, existing_vm, path, pre, job, probe, pipe>>

\* the direct caller takes the result or the exception
AllocateDone ==
    /\ pc \in {"returned", "raised"}
    /\ args.caller = "direct"
    /\ Forget
    /\ UNCHANGED <<call, more, faults, cloud, workspaces, job, probe, pipe>>

\* SpotVMManager.deallocate_user_vm (lines 157-181) / SpotVMCreator.stop_vm
DeallocateUserVm(u, w) ==
    /\ pc = "idle"
    /\ vm_exists(VmNameOf(u, w), TRUE)
    /\ cloud[VmNameOf(u, w)].power = "running"
    /\ cloud' = [cloud EXCEPT ![VmNameOf(u, w)].power = "deallocated"]
    /\ UNCHANGED <<aux, more, workspaces, pc, args, existing_vm, path, result, issued, pre, job, probe, pipe>>

(***************************************************************************)
(* Readiness: SpotVMManager.is_vm_docker_ready (lines 378-411).            *)
(***************************************************************************)
\* what the two probe commands print on a VM
CloudInitStatus(vm) == IF vm.cloud_init THEN "status: done" ELSE "status: running"
DockerVersion(vm) == IF vm.docker THEN "Docker version" ELSE "command not found"

\* the outcomes of one run of the cloud provider's run-command API
CommandOutcomes == {"output", "nothing", "raise"}

\* SpotVMCreator.run_vm_command: the captured output, or nothing on failure
run_vm_command(output, outcome) == IF outcome = "output" THEN output ELSE "none"

\* variant of is_vm_docker_ready that asks for the Docker version only
is_vm_docker_ready_version_only(name, answered, c1, c2) ==
    IF ~vm_exists(name, answered[1]) THEN FALSE
    ELSE IF ~is_vm_running(name, answered[2]) THEN FALSE
    ELSE IF c2 = "raise" THEN FALSE
    ELSE run_vm_command(DockerVersion(cloud[name]), c2) = "Docker version"

\* is_vm_docker_ready, with the outcomes of its two reads and of its two
\* commands c1 and c2
is_vm_docker_ready(name, answered, c1, c2) ==
    IF ~vm_exists(name, answered[1]) THEN FALSE
    ELSE IF ~is_vm_running(name, answered[2]) THEN FALSE
    ELSE IF c1 = "raise" THEN FALSE
    ELSE IF run_vm_command(CloudInitStatus(cloud[name]), c1) # "status: done" THEN FALSE
    ELSE IF c2 = "raise" THEN FALSE
    ELSE run_vm_command(DockerVersion(cloud[name]), c2) = "Docker version"

\* the outcomes of the two reads of a readiness check of VM name: the status
\* is read only when the VM was found
ReadyReads(name) ==
    {answered \in ReadOutcomes(2) : ~answered[2] => vm_exists(name, answered[1])}

\* the commands a readiness check of VM name gets to run: the second is run
\* only when the first printed "status: done"
RunsFirst(name, answered) == vm_exists(name, answered[1]) /\ is_vm_running(name, answered[2])
RunsSecond(name, answered, c1) ==
    RunsFirst(name, answered) /\ run_vm_command(CloudInitStatus(cloud[name]), c1) = "status: done"

\* the outcomes of the two commands of a readiness check of VM name; a check
\* that does not find the VM running runs no command
CommandRuns(name, answered) ==
    IF RunsFirst(name, answered) THEN CommandOutcomes \X CommandOutcomes
    ELSE {<<"none", "none">>}

\* the record of one readiness check of VM name: its answer and what it saw
ProbeOf(name, answered, c1, c2) ==
    [answer |-> is_vm_docker_ready(name, answered, c1, c2), power |-> cloud[name].power,
     cloud_init |-> cloud[name].cloud_init, docker |-> cloud[name].docker,
     c1 |-> IF RunsFirst(name, answered) THEN c1 ELSE "none",
     c2 |-> IF RunsSecond(name, answered, c1) THEN c2 ELSE "none", n |-> 1]

\* GET /api/vm/is_ready (routes/vm.py:25-45)
IsVmReady(u, w) ==
    /\ pc = "idle"
    /\ \E answered \in ReadyReads(VmNameOf(u, w)) :
       \E c \in CommandRuns(VmNameOf(u, w), answered) :
         /\ probe' = ProbeOf(VmNameOf(u, w), answered, c[1], c[2])
         /\ faults' = faults - Failures(answered)
    /\ pc' = "probed"
    /\ UNCHANGED <<call, more, waited, cloud, workspaces, args, existing_vm, path, result, issued, pre, job, pipe>>

\* the route has answered
IsVmReadyDone ==
    /\ pc = "probed"
    /\ pc' = "idle"
    /\ probe' = NoProbe
    /\ UNCHANGED <<aux, more, cloud, workspaces, args, existing_vm, path, result, issued, pre, job, pipe>>

\* the boot bootstrap (cloud-init custom data, spot_vm_creator.py:31-50, 133)
\* installs the container runtime on a running VM while it runs ...
CloudInitInstallsDocker(name) ==
    /\ cloud[name].power = "running"
    /\ ~cloud[name].cloud_init
    /\ ~cloud[name].docker
    /\ cloud' = [cloud EXCEPT ![name].docker = TRUE]
    /\ UNCHANGED <<aux, more, workspaces, pc, args, existing_vm, path, result, issued, pre, job, probe, pipe>>

\* ... and finishes, with or without the container runtime installed
CloudInitCompletes(name) ==
    /\ cloud[name].power = "running"
    /\ ~cloud[name].cloud_init
    /\ cloud' = [cloud EXCEPT ![name].cloud_init = TRUE]
    /\ UNCHANGED <<aux, more, workspaces, pc, args, existing_vm, path, result, issued, pre, job, probe, pipe>>

(***************************************************************************)
(* The ensure-VM job (routes/vm.py:47-105).                                *)
(***************************************************************************)
\* ensure_vm_job: the job is created pending and the background task started;
\* 'create' is the request's flag, True when there is no request body
EnsureVmJob(u, w, create) ==
    /\ pc = "idle"
    /\ cloud[VmNameOf(u, w)].gen < MaxCreates
    /\ job' = [NoJob EXCEPT !.status = "pending"]
    /\ args' = [user_id |-> u, workspace_id |-> w, force_recreate |-> create, caller |-> "job"]
    /\ pc' = "job_start"
    /\ UNCHANGED <<aux, more, cloud, workspaces, existing_vm, path, result, issued, pre, probe, pipe>>

\* run_ensure_vm_job lines 79-83: status running, then the allocation
JobAllocate ==
    /\ pc = "job_start"
    /\ EnterAllocate(args.user_id, args.workspace_id, args.force_recreate, "job")
    /\ job' = [job EXCEPT !.status = "running", !.allocations = @ + 1]
    /\ UNCHANGED <<call, more, faults, cloud, workspaces, probe, pipe>>

\* lines 85-86: the allocation returned
JobAllocated ==
    /\ pc = "returned"
    /\ args.caller = "job"
    /\ job' = [job EXCEPT !.tries = 1, !.ready = FALSE]
    /\ pc' = "job_poll"
    /\ UNCHANGED <<aux, more, cloud, workspaces, args, existing_vm, path, result, issued, pre, probe, pipe>>

\* variant of JobPoll whose loop runs one turn longer
JobPollOneMore ==
    /\ pc = "job_poll"
    /\ ~job.ready
    /\ job.tries <= MaxTries + 1
    /\ \E answered \in ReadyReads(vm_name) :
       \E c \in CommandRuns(vm_name, answered) :
         /\ probe' = [ProbeOf(vm_name, answered, c[1], c[2]) EXCEPT !.n = job.tries]
         /\ faults' = faults - Failures(answered)
         /\ job' = [job EXCEPT !.ready = probe'.answer,
                               !.tries = IF probe'.answer THEN @ ELSE @ + 1,
                               !.checks = @ + 1]
    /\ UNCHANGED <<call, more, waited, cloud, workspaces, pc, args, existing_vm, path, result, issued, pre, pipe>>

\* lines 87-93: one turn of the readiness loop
JobPoll ==
    /\ pc = "job_poll"
    /\ ~job.ready
    /\ job.tries <= MaxTries
    /\ \E answered \in ReadyReads(vm_name) :
       \E c \in CommandRuns(vm_name, answered) :
         /\ probe' = [ProbeOf(vm_name, answered, c[1], c[2]) EXCEPT !.n = job.tries]
         /\ faults' = faults - Failures(answered)
         /\ job' = [job EXCEPT !.ready = probe'.answer,
                               !.tries = IF probe'.answer THEN @ ELSE @ + 1,
                               !.checks = @ + 1]
    /\ UNCHANGED <<call, more, waited, cloud, workspaces, pc, args, existing_vm, path, result, issued, pre, pipe>>

\* lines 95-101: the final status
JobFinish ==
    /\ pc = "job_poll"
    /\ job.ready \/ job.tries > MaxTries
    /\ job' = IF job.ready
              THEN [job EXCEPT !.status = "completed", !.output = result]
              ELSE [job EXCEPT !.status = "failed", !.error = "VM not ready"]
    /\ pc' = "job_done"
    /\ UNCHANGED <<aux, more, cloud, workspaces, args, existing_vm, path, result, issued, pre, probe, pipe>>

\* lines 103-105: the allocation raised
JobException ==
    /\ pc = "raised"
    /\ args.caller = "job"
    /\ job' = [job EXCEPT !.status = "failed", !.error = "exception"]
    /\ pc' = "job_done"
    /\ UNCHANGED <<aux, more, cloud, workspaces, args, existing_vm, path, result, issued, pre, probe, pipe>>

\* the background task has ended; the job's record is read by its owner
JobClose ==
    /\ pc = "job_done"
    /\ Forget
    /\ job' = NoJob
    /\ probe' = NoProbe
    /\ UNCHANGED <<call, more, faults, cloud, workspaces, pipe>>

(***************************************************************************)
(* Remote execution context (app/docker/docker_context_manager.py).        *)
(***************************************************************************)
\* variant of set_context_for_user_workspace that creates the context without
\* inspecting for it first
set_context_without_inspect(username, workspace_name, created) ==
    LET vm_config == workspaces[<<username, workspace_name>>]
        context_name == generate_context_name_from_user_workspace(username, workspace_name)
    IN  IF vm_config = None \/ vm_config.private_ip = NoIp
        THEN [raised |-> "VMNotFoundException", context |-> NoContext, contexts |-> contexts,
              commands |-> <<>>]
        ELSE IF created
        THEN [raised |-> "none", commands |-> <<"create">>,
              contexts |-> [contexts EXCEPT ![context_name] = vm_config.private_ip],
              context |-> [context_name |-> context_name, ip |-> vm_config.private_ip]]
        ELSE [raised |-> "DockerContextSetException", context |-> NoContext, contexts |-> contexts,
              commands |-> <<"create">>]

\* variant of set_context_for_user_workspace that logs a failed creation and
\* returns the context all the same
set_context_unchecked(username, workspace_name, created) ==
    LET vm_config == workspaces[<<username, workspace_name>>]
        context_name == generate_context_name_from_user_workspace(username, workspace_name)
    IN  IF vm_config = None \/ vm_config.private_ip = NoIp
        THEN [raised |-> "VMNotFoundException", context |-> NoContext, contexts |-> contexts,
              commands |-> <<>>]
        ELSE IF contexts[context_name] # NoIp
        THEN [raised |-> "none", contexts |-> contexts, commands |-> <<"inspect">>,
              context |-> [context_name |-> context_name, ip |-> vm_config.private_ip]]
        ELSE [raised |-> "none", commands |-> <<"inspect", "create">>,
              contexts |-> IF created
                           THEN [contexts EXCEPT ![context_name] = vm_config.private_ip]
                           ELSE contexts,
              context |-> [context_name |-> context_name, ip |-> vm_config.private_ip]]

\* DockerContextManager.set_context_for_user_workspace (lines 44-96), 'created'
\* telling whether "docker context create" succeeds when it is run.  The
\* outcome names the exception raised, if any, the docker commands run and the
\* contexts afterwards.
set_context_for_user_workspace(username, workspace_name, created) ==
    LET vm_config == workspaces[<<username, workspace_name>>]
        context_name == generate_context_name_from_user_workspace(username, workspace_name)
    IN  IF vm_config = None \/ vm_config.private_ip = NoIp
        THEN [raised |-> "VMNotFoundException", context |-> NoContext, contexts |-> contexts,
              commands |-> <<>>]
        ELSE IF contexts[context_name] # NoIp
        THEN [raised |-> "none", contexts |-> contexts, commands |-> <<"inspect">>,
              context |-> [context_name |-> context_name, ip |-> vm_config.private_ip]]
        ELSE IF created
        THEN [raised |-> "none", commands |-> <<"inspect", "create">>,
              contexts |-> [contexts EXCEPT ![context_name] = vm_config.private_ip],
              context |-> [context_name |-> context_name, ip |-> vm_config.private_ip]]
        ELSE [raised |-> "DockerContextSetException", context |-> NoContext, contexts |-> contexts,
              commands |-> <<"inspect", "create">>]

\* variant of remove_context_for_user_workspace that runs "docker context rm"
\* on the name of the workspace alone
remove_context_by_workspace(username, workspace_name) ==
    LET context_name == OnlyAlnum(workspace_name)
    IN  IF context_name \in DOMAIN contexts /\ contexts[context_name] # NoIp
        THEN [returned |-> TRUE, contexts |-> [contexts EXCEPT ![context_name] = NoIp]]
        ELSE [returned |-> FALSE, contexts |-> contexts]

\* DockerContextManager.remove_context_for_user_workspace (lines 99-114):
\* "docker context rm" removes the context of the derived name and returns 0,
\* or finds none and fails
remove_context_for_user_workspace(username, workspace_name) ==
    LET context_name == generate_context_name_from_user_workspace(username, workspace_name)
    IN  IF contexts[context_name] # NoIp
        THEN [returned |-> TRUE, contexts |-> [contexts EXCEPT ![context_name] = NoIp]]
        ELSE [returned |-> FALSE, contexts |-> contexts]

(***************************************************************************)
(* Routing files (app/vm_manager/traefik_toml_generator.py).               *)
(***************************************************************************)
\* self.base_url: os.getenv('SUBDOMAIN', 'localhost')
base_url == <<"l", "o", "c", "a", "l", "h", "o", "s", "t">>

\* str() of one decimal digit
DigitChar(d) ==
    CASE d = 0 -> "0" [] d = 1 -> "1" [] d = 2 -> "2" [] d = 3 -> "3" [] d = 4 -> "4"
      [] d = 5 -> "5" [] d = 6 -> "6" [] d = 7 -> "7" [] d = 8 -> "8" [] OTHER -> "9"

RECURSIVE Str(_)
\* str(index)
Str(n) == IF n < 10 THEN <<DigitChar(n)>> ELSE Str(n \div 10) \o <<DigitChar(n % 10)>>

\* the compose specifications of the model as the port classifier reads them:
\* service_ports dictionaries, in insertion order
Web == <<"w", "e", "b">>
Api == <<"a", "p", "i">>
Api1 == <<"a", "p", "i", "1">>
PortMaps ==
    { << <<Web, <<8080>> >> >>,
      << <<Web, <<8080>> >>, <<Api, <<3000, 3001>> >> >>,
      << <<Api, <<3000, 3001>> >>, <<Api1, <<9000>> >> >> }

\* one turn of the inner loop of generate_toml (lines 26-45): the router and
\* the service entry of one port, both stored under the same name
RouteEntry(service_name, private_ip, service, suffix, port) ==
    LET name == service_name \o <<"-">> \o service \o suffix
    IN  [name |-> name, host |-> name \o <<".">> \o base_url,
         backend |-> [ip |-> private_ip, port |-> port]]

RECURSIVE PortEntries(_, _, _, _, _, _)
\* lines 24-45: the entries of one service, index counting from 1
PortEntries(service_name, private_ip, service, ports, index, multiport) ==
    IF ports = <<>> THEN <<>>
    ELSE <<RouteEntry(service_name, private_ip, service,
                      IF multiport THEN Str(index) ELSE <<>>, Head(ports))>>
         \o PortEntries(service_name, private_ip, service, Tail(ports), index + 1, multiport)

RECURSIVE AllEntries(_, _, _)
\* lines 22-45: the entries in the order the loops produce them
AllEntries(service_name, private_ip, service_ports) ==
    IF service_ports = <<>> THEN <<>>
    ELSE PortEntries(service_name, private_ip, Head(service_ports)[1], Head(service_ports)[2],
                     1, Len(Head(service_ports)[2]) > 1)
         \o AllEntries(service_name, private_ip, Tail(service_ports))

RECURSIVE AsDict(_)
\* routers[router_name] = ..., services[service_entry_name] = ...: a later
\* entry replaces an earlier one of the same name
AsDict(entries) ==
    IF entries = <<>> THEN {}
    ELSE LET last == entries[Len(entries)]
         IN  {e \in AsDict(SubSeq(entries, 1, Len(entries) - 1)) : e.name # last.name} \cup {last}

\* TraefikTomlGenerator.generate_toml(service_name, private_ip, service_ports):
\* the file it writes and the URLs it returns
generate_toml(service_name, private_ip, service_ports) ==
    LET entries == AllEntries(service_name, private_ip, service_ports)
    IN  [path |-> service_name \o <<".", "t", "o", "m", "l">>,
         config |-> AsDict(entries),
         final_urls |-> [i \in 1..Len(entries) |-> entries[i].host]]

\* variant of WriteFile that keeps what the file held
WriteFileAppending(files, toml_file_path, config) ==
    {f \in files : f.path # toml_file_path}
        \cup {[path |-> toml_file_path,
               config |-> UNION {f.config : f \in {g \in files : g.path = toml_file_path}}
                            \cup config]}

\* open(toml_file_path, 'w') and toml.dump (lines 66-68): the file of that
\* path holds the new configuration and nothing else
WriteFile(files, toml_file_path, config) ==
    {f \in files : f.path # toml_file_path} \cup {[path |-> toml_file_path, config |-> config]}

(***************************************************************************)
(* Commands (app/docker/docker_log_handler.py:48-98).                      *)
(***************************************************************************)
\* how a command can end: its exit status and whether it wrote to stderr
CommandEnds == [rc_ok : BOOLEAN, stderr : BOOLEAN]

\* CommandResult.success of run_docker_commands_with_logging: a failure is
\* reported "if stderr and not success" (line 86), success otherwise
CommandSuccess(end) == ~(end.stderr /\ ~end.rc_ok)

(***************************************************************************)
(* The build-and-deploy job (app/routes/docker.py:29-108) and the stages   *)
(* of DockerComposeRemoteVMUtils.                                          *)
(***************************************************************************)
WriteStatus(status) == [bd EXCEPT !.status = status, !.writes = Append(@, status)]

\* build_deploy_job (lines 29-48): the job is created pending and the
\* background task started
BuildDeployJob(u, w) ==
    /\ pc = "idle"
    /\ bd' = [NoBuildDeploy EXCEPT !.status = "pending", !.files_at_start = routes]
    /\ args' = [NoArgs EXCEPT !.user_id = u, !.workspace_id = w, !.caller = "build_deploy"]
    /\ ran' = <<>>
    /\ bound' = NoContext
    /\ services_ports' = <<>>
    /\ pc' = "bd_upload"
    /\ UNCHANGED <<aux, more, cloud, workspaces, existing_vm, path, result, issued, pre, job, probe,
                   contexts, routes>>

\* the except branch of run_build_deploy_job (lines 93-104)
InternalError ==
    [bd EXCEPT !.status = "failed", !.writes = Append(@, "failed"),
               !.error = "Internal Server Error", !.server_error = TRUE,
               !.detail = "generic"]

\* lines 66-74: upload_workspace, status running, get_workspace
UploadWorkspace ==
    /\ pc = "bd_upload"
    /\ \E uploaded \in BOOLEAN :
         IF uploaded
         THEN ran' = Append(ran, "upload") /\ bd' = WriteStatus("running") /\ pc' = "bd_down"
         ELSE ran' = Append(ran, "upload_failed") /\ bd' = InternalError /\ pc' = "bd_done"
    /\ UNCHANGED <<aux, more, cloud, workspaces, args, existing_vm, path, result, issued, pre, job, probe,
                   contexts, routes, bound, services_ports>>

\* What the docker commands of the stages do on a VM to the containers and
\* images of the project, when they reach a running VM and exit with 0.
\* "compose -p <project> down" (remote utils lines 31, 288) removes the
\* project's containers:
ComposeDownOn(vm) == [vm EXCEPT !.containers = 0]

\* "images -q --filter label=com.docker.compose.project=<project> | xargs -r
\* rmi -f" and "image prune -f" (lines 289-290) remove the project's images,
\* those of earlier builds with them, unless a running container uses one
RemoveImagesOn(vm) == IF vm.containers = 0 THEN [vm EXCEPT !.images = 0] ELSE vm

\* "compose build" (generate_build_command, lines 195-224) builds the
\* project's image; built from changed files it is a new image and the one
\* built before stays on the VM, without its tag
ComposeBuildOn(vm, changed) ==
    [vm EXCEPT !.images = IF @ = 0 THEN 1 ELSE IF changed THEN @ + 1 ELSE @]

\* "compose up -d --build" (generate_deploy_command, lines 164-192) builds
\* what is not built and leaves one set of containers of the project
ComposeUpOn(vm) == [vm EXCEPT !.images = IF @ = 0 THEN 1 ELSE @, !.containers = 1]

\* the VM the commands of the running job reach
Reached(ok) == ok /\ cloud[vm_name].power = "running"

\* lines 76-77: run_docker_compose_down (remote utils lines 26-36): context
\* binding and the down command, every failure turned into a result the job
\* does not read
RunDockerComposeDown ==
    /\ pc = "bd_down"
    /\ \E created \in BOOLEAN, done \in BOOLEAN :
         LET b == set_context_for_user_workspace(args.user_id, args.workspace_id, created)
         IN  /\ contexts' = b.contexts
             /\ ran' = IF b.raised = "none" THEN ran \o <<"down.bind", "down">>
                       ELSE Append(ran, "down.bind_failed")
             /\ cloud' = IF Reached(b.raised = "none" /\ done)
                         THEN [cloud EXCEPT ![vm_name] = ComposeDownOn(@)]
                         ELSE cloud
    /\ bd' = WriteStatus("running")
    /\ pc' = "bd_build"
    /\ UNCHANGED <<aux, more, workspaces, args, existing_vm, path, result, issued, pre, job, probe,
                   routes, bound, services_ports>>

\* what ServerErrorIdentifier.identify_error can do with a build error: the
\* model's answer names infrastructure, names code, or the call raises
ClassifierAnswers == {"infrastructure", "code", "raise"}

\* ServerErrorIdentifier.identify_error (server_error_identifier.py:41-58)
identify_error(answer) == IF answer = "infrastructure" THEN "server_error" ELSE "None"

\* docker.py lines 79-85: the job record of a build reported failed
BuildFailed(answer, detail) ==
    IF answer = "raise" THEN [InternalError EXCEPT !.label = answer]
    ELSE [WriteStatus("failed") EXCEPT !.error = "build", !.label = answer, !.detail = detail,
                                       !.server_error = (identify_error(answer) # "None")]

\* lines 78-86: run_docker_compose_build (remote utils lines 39-55): context
\* binding outside the try, then the build command inside it; a build reported
\* failed is classified and ends the job
RunDockerComposeBuild ==
    /\ pc = "bd_build"
    /\ \E created \in BOOLEAN, raised \in BOOLEAN, end \in CommandEnds, answer \in ClassifierAnswers,
          changed \in BOOLEAN :
         LET b == set_context_for_user_workspace(args.user_id, args.workspace_id, created)
         IN  /\ contexts' = b.contexts
             /\ IF b.raised # "none"
                THEN /\ ran' = Append(ran, "build.bind_failed")
                     /\ bd' = InternalError
                     /\ pc' = "bd_done"
                ELSE IF raised
                THEN /\ ran' = ran \o <<"build.bind", "build_raised">>
                     /\ bd' = BuildFailed(answer, "exception")
                     /\ pc' = "bd_done"
                ELSE /\ ran' = ran \o <<"build.bind", IF end.rc_ok THEN "build" ELSE "build_failed">>
                     /\ IF CommandSuccess(end)
                        THEN bd' = WriteStatus("running") /\ pc' = "bd_deploy"
                        ELSE bd' = BuildFailed(answer, "stderr") /\ pc' = "bd_done"
             /\ IF Reached(b.raised = "none" /\ ~raised /\ end.rc_ok)
                THEN /\ changed => cloud[vm_name].images < MaxImages
                     /\ cloud' = [cloud EXCEPT ![vm_name] = ComposeBuildOn(@, changed)]
                ELSE /\ ~changed
                     /\ cloud' = cloud
    /\ UNCHANGED <<aux, more, workspaces, args, existing_vm, path, result, issued, pre, job, probe,
                   routes, bound, services_ports>>

\* run_docker_compose_deploy line 106: context binding, outside every try
DeployBind ==
    /\ pc = "bd_deploy"
    /\ \E created \in BOOLEAN :
         LET b == set_context_for_user_workspace(args.user_id, args.workspace_id, created)
         IN  /\ contexts' = b.contexts
             /\ bound' = b.context
             /\ IF b.raised # "none"
                THEN ran' = Append(ran, "deploy.bind_failed") /\ bd' = InternalError /\ pc' = "bd_done"
                ELSE ran' = Append(ran, "deploy.bind") /\ bd' = bd /\ pc' = "bd_cleanup"
    /\ UNCHANGED <<aux, more, cloud, workspaces, args, existing_vm, path, result, issued, pre, job, probe,
                   routes, services_ports>>

\* how the pre-deploy cleanup can end: its commands succeed, one of them fails
\* (logged inside run_docker_compose_cleanup, lines 293-304), or the cleanup
\* raises (os.chdir and the context binding at lines 281-285 are outside its try)
CleanupEnds == {"cleanup", "cleanup_failed", "cleanup_raised"}

\* the commands of a cleanup that exit with 0: all of them when it succeeds,
\* none when it raised before it ran one, any of them otherwise
CleanupRuns(end, down, rmi) ==
    CASE end = "cleanup" -> down /\ rmi
      [] end = "cleanup_raised" -> ~down /\ ~rmi
      [] OTHER -> TRUE

\* lines 287-291: the project's containers, then its images
CleanedUp(vm, down, rmi) ==
    LET after_down == IF down THEN ComposeDownOn(vm) ELSE vm
    IN  IF rmi THEN RemoveImagesOn(after_down) ELSE after_down

\* variant of PreDeployCleanup in which a cleanup that raises fails the deploy
PreDeployCleanupFatal ==
    /\ pc = "bd_cleanup"
    /\ \E end \in CleanupEnds, down \in BOOLEAN, rmi \in BOOLEAN :
         /\ ran' = Append(ran, end)
         /\ IF end = "cleanup_raised"
            THEN bd' = [WriteStatus("failed") EXCEPT !.error = "deploy"] /\ pc' = "bd_done"
            ELSE bd' = bd /\ pc' = "bd_ports"
         /\ CleanupRuns(end, down, rmi)
         /\ cloud' = [cloud EXCEPT ![vm_name] = CleanedUp(@, Reached(down), Reached(rmi))]
    /\ UNCHANGED <<aux, more, workspaces, args, existing_vm, path, result, issued, pre, job, probe,
                   contexts, routes, bound, services_ports>>

\* lines 109-126: the pre-deploy cleanup (run_docker_compose_cleanup, lines
\* 269-320) and the system cleanup (lines 323-371); a raise is caught at lines
\* 116 and 125 and neither outcome is read
PreDeployCleanup ==
    /\ pc = "bd_cleanup"
    /\ \E end \in CleanupEnds, down \in BOOLEAN, rmi \in BOOLEAN :
         /\ ran' = Append(ran, end)
         /\ CleanupRuns(end, down, rmi)
         /\ cloud' = [cloud EXCEPT ![vm_name] = CleanedUp(@, Reached(down), Reached(rmi))]
    /\ pc' = "bd_ports"
    /\ UNCHANGED <<aux, more, workspaces, args, existing_vm, path, result, issued, pre, job, probe,
                   contexts, routes, bd, bound, services_ports>>

\* the deploy stage returned the failed CommandResult of its command (line
\* 158) and the job records it (docker.py lines 89-91)
DeployFailed == [WriteStatus("failed") EXCEPT !.error = "deploy", !.detail = "stderr"]

\* the deploy stage caught an exception and returned
\* CommandResult(success=False, error=str(e), ...) (lines 159-161)
DeployRaised == [WriteStatus("failed") EXCEPT !.error = "deploy", !.detail = "exception"]

\* variant of ResolvePorts that goes on without ports
ResolvePortsLenient ==
    /\ pc = "bd_ports"
    /\ \E found \in PortMaps \cup {<<>>} :
         /\ services_ports' = found
         /\ ran' = Append(ran, IF found # <<>> THEN "ports" ELSE "ports_failed")
    /\ pc' = "bd_fluentd"
    /\ UNCHANGED <<aux, more, cloud, workspaces, args, existing_vm, path, result, issued, pre, job, probe,
                   contexts, routes, bd, bound>>

\* line 128: _retrieve_external_service_ports (lines 86-102) raises when no
\* port is found
ResolvePorts ==
    /\ pc = "bd_ports"
    /\ \E found \in PortMaps \cup {<<>>} :
         IF found # <<>>
         THEN /\ services_ports' = found
              /\ ran' = Append(ran, "ports") /\ bd' = bd /\ pc' = "bd_fluentd"
         ELSE /\ services_ports' = services_ports
              /\ ran' = Append(ran, "ports_failed") /\ bd' = DeployRaised /\ pc' = "bd_done"
    /\ UNCHANGED <<aux, more, cloud, workspaces, args, existing_vm, path, result, issued, pre, job, probe,
                   contexts, routes, bound>>

\* lines 130-131: enable_fluentd_logging (lines 226-248) raises when the
\* compose file was not updated; the raise is caught at line 159
EnableFluentdLogging ==
    /\ pc = "bd_fluentd"
    /\ \E updated \in BOOLEAN :
         IF updated
         THEN ran' = Append(ran, "fluentd") /\ bd' = bd /\ pc' = "bd_up"
         ELSE ran' = Append(ran, "fluentd_failed") /\ bd' = DeployRaised /\ pc' = "bd_done"
    /\ UNCHANGED <<aux, more, cloud, workspaces, args, existing_vm, path, result, issued, pre, job, probe,
                   contexts, routes, bound, services_ports>>

\* lines 133-141, 158: the deploy command ("up -d --build")
ComposeUp ==
    /\ pc = "bd_up"
    /\ \E end \in CommandEnds :
         /\ ran' = Append(ran, IF end.rc_ok THEN "up" ELSE "up_failed")
         /\ IF CommandSuccess(end)
            THEN bd' = bd /\ pc' = "bd_publish"
            ELSE bd' = DeployFailed /\ pc' = "bd_done"
         /\ cloud' = IF Reached(end.rc_ok)
                     THEN [cloud EXCEPT ![vm_name] = ComposeUpOn(@)]
                     ELSE cloud
    /\ UNCHANGED <<aux, more, workspaces, args, existing_vm, path, result, issued, pre, job, probe,
                   contexts, routes, bound, services_ports>>

\* lines 142-157: the routing file is generated and written
\* (TraefikTomlGenerator.generate_toml) and the deploy information set; a
\* failure to write the file is caught at line 159.  docker.py line 92 then
\* records the job completed.
PublishRoutes ==
    /\ pc = "bd_publish"
    /\ \E written \in BOOLEAN :
         LET service_name == generate_unique_name(args.workspace_id, args.user_id)
             g == generate_toml(service_name, bound.ip, services_ports)
         IN  IF written
             THEN /\ routes' = WriteFile(routes, g.path, g.config)
                  /\ ran' = Append(ran, "publish")
                  /\ bd' = [WriteStatus("completed") EXCEPT
                              !.deploy_info = [container_name |-> service_name,
                                               urls |-> g.final_urls]]
             ELSE /\ routes' = routes
                  /\ ran' = Append(ran, "publish_failed")
                  /\ bd' = DeployRaised
    /\ pc' = "bd_done"
    /\ UNCHANGED <<aux, more, cloud, workspaces, args, existing_vm, path, result, issued, pre, job, probe,
                   contexts, bound, services_ports>>

\* the background task has ended
BuildDeployClose ==
    /\ pc = "bd_done"
    /\ Forget
    /\ bd' = NoBuildDeploy
    /\ ran' = <<>>
    /\ bound' = NoContext
    /\ services_ports' = <<>>
    /\ UNCHANGED <<call, more, faults, cloud, workspaces, job, probe, contexts, routes>>

Allocate ==
    \/ CheckAllocation
    \/ CheckRunning
    \/ StartVm
    \/ DeleteSpotVm
    \/ CreateSpotVm
    \/ UpdateWorkspaceTable
    \/ CleanupAndReturn
    \/ AllocateDone

EnsureJob ==
    \/ JobAllocate
    \/ JobAllocated
    \/ JobPoll
    \/ JobFinish
    \/ JobException
    \/ JobClose

BuildDeploy ==
    \/ UploadWorkspace
    \/ RunDockerComposeDown
    \/ RunDockerComposeBuild
    \/ DeployBind
    \/ PreDeployCleanup
    \/ ResolvePorts
    \/ EnableFluentdLogging
    \/ ComposeUp
    \/ PublishRoutes
    \/ BuildDeployClose

Next ==
    \/ \E k \in WsKeys, force \in BOOLEAN : AllocateOrReuseVm(k[1], k[2], force)
    \/ \E k \in WsKeys, create \in BOOLEAN : EnsureVmJob(k[1], k[2], create)
    \/ Allocate
    \/ EnsureJob
    \/ \E k \in WsKeys : BuildDeployJob(k[1], k[2])
    \/ BuildDeploy
    \/ \E k \in WsKeys : DeallocateUserVm(k[1], k[2])
    \/ \E k \in WsKeys : IsVmReady(k[1], k[2])
    \/ IsVmReadyDone
    \/ \E n \in VmNames : CloudInitInstallsDocker(n)
    \/ \E n \in VmNames : CloudInitCompletes(n)

Spec == Init /\ [][Next]_vars

\* the background tasks (run_ensure_vm_job and the allocation it awaits) are
\* asyncio tasks the event loop keeps scheduling until they return
\* The routes of routes/vm.py, without the build-and-deploy job:
VmNext ==
    \/ \E k \in WsKeys, force \in BOOLEAN : AllocateOrReuseVm(k[1], k[2], force)
    \/ \E k \in WsKeys, create \in BOOLEAN : EnsureVmJob(k[1], k[2], create)
    \/ Allocate
    \/ EnsureJob
    \/ \E k \in WsKeys : DeallocateUserVm(k[1], k[2])
    \/ \E k \in WsKeys : IsVmReady(k[1], k[2])
    \/ IsVmReadyDone
    \/ \E n \in VmNames : CloudInitInstallsDocker(n)
    \/ \E n \in VmNames : CloudInitCompletes(n)

LiveSpec == Init /\ [][VmNext]_vars /\ WF_vars(Allocate \/ EnsureJob)

\* the same program with a cloud API that fails some of its reads
FaultInit ==
    /\ Fresh
    /\ call = NoCall
    /\ faults = MaxFaults

\* direct calls of allocate_or_reuse_vm, of deallocate_user_vm and of the
\* readiness route
FaultNext ==
    \/ \E k \in WsKeys, force \in BOOLEAN : AllocateOrReuseVm(k[1], k[2], force)
    \/ Allocate
    \/ \E k \in WsKeys : DeallocateUserVm(k[1], k[2])
    \/ \E k \in WsKeys : IsVmReady(k[1], k[2])
    \/ IsVmReadyDone
    \/ \E n \in VmNames : CloudInitInstallsDocker(n)
    \/ \E n \in VmNames : CloudInitCompletes(n)

FaultSpec == FaultInit /\ [][FaultNext]_vars

(***************************************************************************)
(* The wait for a VM to run, one turn of its loop a step.  CreateSpotVm    *)
(* and StartVm above take the wait in one step; here create_spot_vm and    *)
(* start_vm stop where _wait_for_vm_running begins, and the loop polls.    *)
(***************************************************************************)
\* create_spot_vm up to its wait (spot_vm_creator.py:52-161): it returns the
\* details of a VM that vm_exists reports, raises when a step before the VM's
\* creation fails, and else has begun a VM that is starting or runs already
CreateSpotVmBegins ==
    /\ pc = "create"
    /\ waited' = 0
    /\ \E exists \in ReadOutcomes(1) :
         IF vm_exists(vm_name, exists[1])
         THEN ReturnExistingVm
         ELSE /\ faults' = faults - Failures(exists)
              /\ \E begun \in BOOLEAN, power \in {"starting", "running"} :
                   IF begun
                   THEN /\ cloud' = [cloud EXCEPT ![vm_name] =
                                       IF @.power = "absent"
                                       THEN [CreateOrUpdate(vm_name, @) EXCEPT !.power = power]
                                       ELSE CreateOrUpdate(vm_name, @)]
                        /\ cloud[vm_name].power # "absent" => power = "running"
                        /\ issued' = Append(issued, "create")
                        /\ pc' = "create_wait"
                        /\ UNCHANGED existing_vm
                   ELSE /\ power = "running"
                        /\ pc' = "raised"
                        /\ UNCHANGED <<cloud, existing_vm, issued>>
    /\ UNCHANGED <<call, more, workspaces, args, path, result, pre, job, probe, pipe>>

\* start_vm up to its wait (spot_vm_creator.py:255-262): begin_start raises,
\* and start_vm returns False (267-269), or the VM is starting or runs already
StartVmBegins ==
    /\ pc = "start"
    /\ issued' = Append(issued, "start")
    /\ waited' = 0
    /\ \E begun \in BOOLEAN, power \in {"starting", "running"} :
         IF begun
         THEN /\ cloud' = [cloud EXCEPT ![vm_name].power = IF @ = "running" THEN @ ELSE power]
              /\ pc' = "start_wait"
              /\ path' = path
         ELSE /\ power = "running"
              /\ pc' = "delete"
              /\ path' = "heal"
              /\ cloud' = cloud
    /\ UNCHANGED <<call, more, faults, workspaces, args, existing_vm, result, pre, job, probe, pipe>>

\* variant of Elapsed whose clock starts again before it reaches the timeout
ElapsedWrapping(seconds) == (seconds + PollInterval) % WaitTimeout

\* time.time() - start_time after one more time.sleep(10) (lines 286, 294)
Elapsed(seconds) == seconds + PollInterval

\* SpotVMCreator._wait_for_vm_running (spot_vm_creator.py:284-296), one turn
\* of its loop a step.  While the timeout has not elapsed it reads the status
\* and returns when that is 'running', else sleeps; after the timeout it
\* raises TimeoutError.  On its return create_spot_vm reads the NIC and
\* returns the vm_config (lines 167-187), re-raising what is raised (189-191);
\* start_vm returns True and allocate_or_reuse_vm reads the details
\* (spot_vm_manager.py:111-112), or returns False (spot_vm_creator.py:267-269).
WaitForVmRunning ==
    /\ pc \in {"create_wait", "start_wait"}
    /\ IF waited < WaitTimeout
       THEN \E status \in ReadOutcomes(1) :
              IF get_vm_status(vm_name, status[1]) = "running"
              THEN /\ waited' = waited
                   /\ IF pc = "create_wait"
                      THEN \E nic \in ReadOutcomes(1) :
                             /\ faults' = faults - Failures(nic)
                             /\ path' = path
                             /\ IF nic[1]
                                THEN /\ existing_vm' = [vm_name |-> vm_name,
                                                        private_ip |-> cloud[vm_name].ip,
                                                        status |-> "running"]
                                     /\ pc' = "persist"
                                ELSE /\ existing_vm' = existing_vm
                                     /\ pc' = "raised"
                      ELSE \E answered \in DetailsReads(cloud[vm_name]) :
                             /\ faults' = faults - Failures(answered)
                             /\ existing_vm' = get_vm_details(vm_name, answered)
                             /\ path' = "restart"
                             /\ pc' = "persist"
              ELSE /\ waited' = Elapsed(waited)
                   /\ faults' = faults - Failures(status)
                   /\ UNCHANGED <<pc, existing_vm, path>>
       ELSE /\ pc' = IF pc = "create_wait" THEN "raised" ELSE "delete"
            /\ path' = IF pc = "create_wait" THEN path ELSE "heal"
            /\ UNCHANGED <<waited, faults, existing_vm>>
    /\ UNCHANGED <<call, more, cloud, workspaces, args, result, issued, pre, job, probe, pipe>>

\* the cloud brings a starting VM up; nothing bounds how long that takes
VmComesUp(name) ==
    /\ cloud[name].power = "starting"
    /\ cloud' = [cloud EXCEPT ![name].power = "running"]
    /\ UNCHANGED <<aux, more, workspaces, pc, args, existing_vm, path, result, issued, pre, job, probe, pipe>>

WaitInit ==
    /\ Fresh
    /\ call = NoCall
    /\ faults = MaxFaults

WaitNext ==
    \/ \E k \in WsKeys, force \in BOOLEAN : AllocateOrReuseVm(k[1], k[2], force)
    \/ CheckAllocation
    \/ CheckRunning
    \/ StartVmBegins
    \/ DeleteSpotVm
    \/ CreateSpotVmBegins
    \/ WaitForVmRunning
    \/ UpdateWorkspaceTable
    \/ CleanupAndReturn
    \/ AllocateDone
    \/ \E k \in WsKeys : DeallocateUserVm(k[1], k[2])
    \/ \E n \in VmNames : VmComesUp(n)

\* the thread that runs the loop keeps running
WaitSpec == WaitInit /\ [][WaitNext]_vars /\ WF_vars(WaitForVmRunning)

(***************************************************************************)
(* Calls of DockerContextManager on their own, as the deployment stages    *)
(* and tests/docker_context_create_test.py make them.                      *)
(***************************************************************************)
NoContextCall ==
    [op |-> "none", username |-> <<>>, workspace_name |-> <<>>, before |-> <<>>,
     commands |-> <<>>, raised |-> "none", context |-> NoContext, returned |-> FALSE]

\* a call of set_context_for_user_workspace (docker_context_manager.py:44-96)
SetContextForUserWorkspace(username, workspace_name) ==
    /\ pc = "idle"
    /\ \E created \in BOOLEAN :
         LET b == set_context_for_user_workspace(username, workspace_name, created)
         IN  /\ contexts' = b.contexts
             /\ call' = [op |-> "set", username |-> username, workspace_name |-> workspace_name,
                         before |-> contexts, commands |-> b.commands, raised |-> b.raised,
                         context |-> b.context, returned |-> FALSE]
    /\ UNCHANGED <<more, cloud, workspaces, pc, args, existing_vm, path, result, issued, pre, job, probe,
                   routes, bd, ran, bound, services_ports, faults, waited>>

\* a call of remove_context_for_user_workspace (lines 99-114)
RemoveContextForUserWorkspace(username, workspace_name) ==
    /\ pc = "idle"
    /\ LET r == remove_context_for_user_workspace(username, workspace_name)
       IN  /\ contexts' = r.contexts
           /\ call' = [op |-> "rm", username |-> username, workspace_name |-> workspace_name,
                       before |-> contexts, commands |-> <<"rm">>, raised |-> "none",
                       context |-> NoContext, returned |-> r.returned]
    /\ UNCHANGED <<more, cloud, workspaces, pc, args, existing_vm, path, result, issued, pre, job, probe,
                   routes, bd, ran, bound, services_ports, faults, waited>>

ContextInit ==
    /\ Fresh
    /\ call = NoContextCall
    /\ faults = 0

ContextNext ==
    \/ \E k \in WsKeys, force \in BOOLEAN : AllocateOrReuseVm(k[1], k[2], force)
    \/ Allocate
    \/ \E k \in WsKeys : SetContextForUserWorkspace(k[1], k[2])
    \/ \E k \in WsKeys : RemoveContextForUserWorkspace(k[1], k[2])

ContextSpec == ContextInit /\ [][ContextNext]_vars

(***************************************************************************)
(* Calls of SpotVMCreator._generate_static_ip on its own.                  *)
(***************************************************************************)
\* the subnets it is called with: a base address and the number of usable
\* hosts of the prefix; no hosts stands for a prefix that cannot be parsed
\* (subnet.address_prefix is None)
Subnets ==
    [base : {"10.0.0.0", "10.1.0.0"}, hosts : {0} \cup {2 ^ b - 2 : b \in 2..MaxHostBits}]

\* the VM names it is called with
CallNames ==
    {<<"v", "m", "-">> \o t : t \in UNION {[1..n -> {"a", "l", "1"}] : n \in 1..MaxNameLen}}

CallInit ==
    /\ Fresh
    /\ \E n \in CallNames, sn \in Subnets : call = [NoCall EXCEPT !.vm_name = n, !.subnet = sn]
    /\ faults = 0

\* create_spot_vm line 92: static_ip = self._generate_static_ip(vm_name, subnet)
GenerateStaticIp ==
    /\ call.vm_name # <<>> /\ call.first = NoIp
    /\ call' = [call EXCEPT !.first = _generate_static_ip(call.vm_name, call.subnet.hosts)]
    /\ UNCHANGED <<more, cloud, workspaces, pc, args, existing_vm, path, result, issued, pre, job, probe,
                   pipe, faults, waited>>

\* the same call once more, as the next creation of that VM makes it
GenerateStaticIpAgain ==
    /\ call.first # NoIp /\ call.second = NoIp
    /\ call' = [call EXCEPT !.second = _generate_static_ip(call.vm_name, call.subnet.hosts)]
    /\ UNCHANGED <<more, cloud, workspaces, pc, args, existing_vm, path, result, issued, pre, job, probe,
                   pipe, faults, waited>>

CallNext == GenerateStaticIp \/ GenerateStaticIpAgain

CallSpec == CallInit /\ [][CallNext]_vars

(***************************************************************************)
(* Properties of allocate_or_reuse_vm.                                     *)
(***************************************************************************)
\* how often call c occurs in the log of issued calls
Count(log, c) == Cardinality({i \in 1..Len(log) : log[i] = c})
\* log is an initial part of full
IsPrefix(log, full) == Len(log) <= Len(full) /\ \A i \in 1..Len(log) : log[i] = full[i]
\* the record of the VM as the cloud has it now
CurrentRecord == DetailsOf(vm_name, cloud[vm_name])

\* C1: a call for a VM that does not exist issues exactly one create and has
\* persisted the created VM's record onto the workspace when it returns
C1_CreatedOnceAndPersisted ==
    (pc = "returned" /\ pre.power = "absent") =>
        /\ Count(issued, "create") = 1
        /\ workspaces[wsKey] = CurrentRecord

C6_ReturnedRecordPersisted ==
    pc = "returned" =>
        /\ workspaces[wsKey].private_ip = result.ip
        /\ workspaces[wsKey].vm_name = result.vm_name

(***************************************************************************)
(* Properties of the ensure-VM job and of the readiness check.             *)
(***************************************************************************)
\* C7: when an ensure-VM job is completed the workspace's vm_config is set, its
\* vm_name is the one in the job's result and the reported status is running
C7_CompletedJobHasVmConfig ==
    job.status = "completed" =>
        /\ workspaces[wsKey] # None
        /\ workspaces[wsKey].vm_name = job.output.vm_name
        /\ job.output.vm_status = "running"

\* C8: a readiness check answers ready exactly when the VM exists and is
\* running, cloud-init reports completion and the Docker version query
\* answers; if one of these fails, or a command raises, it answers not ready
C8_ReadyOnlyWhenBootstrapped ==
    probe.n > 0 =>
        (probe.answer <=>
            /\ probe.power = "running"
            /\ probe.cloud_init /\ probe.c1 = "output"
            /\ probe.docker /\ probe.c2 = "output")

C8_Witness ==
    /\ probe.n > 0 /\ probe.answer
    /\ probe.power = "running" /\ probe.cloud_init /\ probe.docker

\* what holds of the ensure-VM job at every moment
JobBounded ==
    /\ job.allocations <= 1
    /\ job.checks <= MaxTries
    /\ job.status = "completed" => (job.ready /\ job.allocations = 1 /\ pc = "job_done")
    /\ job.status = "failed" => (~job.ready /\ job.allocations = 1 /\ pc = "job_done")
    /\ (job.status = "failed" /\ job.error = "VM not ready") => job.checks = MaxTries
    /\ (job.checks = MaxTries /\ ~job.ready /\ pc = "job_done") => job.status = "failed"

\* C9: an ensure-VM job allocates exactly once and checks readiness at most 15
\* times; it ends failed, without allocating again, when no check succeeds and
\* completed when one does; it always ends
C9_JobAllocatesOnceAndEnds ==
    /\ []JobBounded
    /\ (job.status \in {"pending", "running"}) ~> (job.status \in {"completed", "failed"})

C9_Witness ==
    /\ job.status = "failed" /\ job.error = "VM not ready"
    /\ job.checks = MaxTries /\ job.allocations = 1

(***************************************************************************)
(* Properties of the deployment pipeline.                                  *)
(***************************************************************************)
\* the place of a stage event in the order of the stages
StageRank(e) ==
    CASE e \in {"upload", "upload_failed"} -> 1
      [] e \in {"down.bind", "down.bind_failed"} -> 2
      [] e = "down" -> 3
      [] e \in {"build.bind", "build.bind_failed"} -> 4
      [] e \in {"build", "build_failed", "build_raised"} -> 5
      [] e \in {"deploy.bind", "deploy.bind_failed"} -> 6
      [] e \in CleanupEnds -> 7
      [] e \in {"ports", "ports_failed"} -> 8
      [] e \in {"fluentd", "fluentd_failed"} -> 9
      [] e \in {"up", "up_failed"} -> 10
      [] OTHER -> 11

BindFailures == {"down.bind_failed", "build.bind_failed", "deploy.bind_failed"}

\* C10: the stages of a deployment run strictly in order; after a failed build
\* no up command runs and no routing entries are published, after a failed up
\* nothing is published, and after a failed context binding no build and no up
\* command runs
C10_FatalStagesShortCircuit ==
    \A i, j \in 1..Len(ran) :
        i < j =>
            /\ StageRank(ran[i]) < StageRank(ran[j])
            /\ ran[i] = "build_failed" => ran[j] \notin {"up", "up_failed", "publish"}
            /\ ran[i] = "up_failed" => ran[j] # "publish"
            /\ ran[i] \in BindFailures => ran[j] \notin {"build", "build_failed", "up", "up_failed"}

\* the stage events of the running build-and-deploy invocation
Ran == {ran[i] : i \in 1..Len(ran)}
\* the last of them
LastRan == IF ran = <<>> THEN "none" ELSE ran[Len(ran)]
\* the events with which the deploy stage ends in failure
DeployFailures == {"ports_failed", "fluentd_failed", "up_failed", "publish_failed"}

\* C11: a pre-deploy cleanup that fails or raises never aborts the deploy: the
\* port resolution follows it, and how the job ends is decided by the stages
\* after it
C11_CleanupNeverAborts ==
    \A i \in 1..Len(ran) :
        ran[i] \in CleanupEnds =>
            /\ IF i = Len(ran)
               THEN pc = "bd_ports" /\ bd.status = "running"
               ELSE ran[i + 1] \in {"ports", "ports_failed"}
            /\ pc = "bd_done" =>
                 /\ bd.status = "completed" <=> LastRan = "publish"
                 /\ bd.status = "failed" <=> LastRan \in DeployFailures

C11_Witness ==
    /\ pc = "bd_done" /\ bd.status = "completed"
    /\ "cleanup_raised" \in Ran

\* C12: a failure to attach log shipping to the compose file is tolerated: the
\* up command still runs after it
C12_FluentdFailureTolerated ==
    \A i \in 1..Len(ran) :
        ran[i] = "fluentd_failed" =>
            IF i = Len(ran) THEN pc = "bd_up" ELSE ran[i + 1] \in {"up", "up_failed"}

\* C13: when no service port is resolved the deploy fails: no up command runs,
\* no routing file is written and the job ends failed
C13_NoPortsFailsDeploy ==
    "ports_failed" \in Ran =>
        /\ LastRan = "ports_failed"
        /\ Ran \cap {"up", "up_failed", "publish"} = {}
        /\ routes = bd.files_at_start
        /\ pc = "bd_done" /\ bd.status = "failed" /\ bd.error = "deploy"

C13_Witness ==
    /\ "ports_failed" \in Ran /\ pc = "bd_done"
    /\ "cleanup" \in Ran

\* C14: routing entries are published only right after a successful up, a
\* completed deploy carries the published URLs and the deployment name, and
\* nothing is published after a failed up
C14_PublishOnlyAfterUp ==
    /\ \A i \in 1..Len(ran) :
         /\ ran[i] = "publish" => (i > 1 /\ ran[i - 1] = "up")
         /\ ran[i] = "up_failed" => i = Len(ran)
    /\ bd.status = "completed" =>
         /\ bd.deploy_info.container_name = generate_unique_name(args.workspace_id, args.user_id)
         /\ \A f \in routes :
              f.path = generate_toml(bd.deploy_info.container_name, bound.ip, services_ports).path
                => \A e \in f.config :
                     \E j \in 1..Len(bd.deploy_info.urls) : bd.deploy_info.urls[j] = e.host

\* C15: a failure to write the routing file is swallowed: the deploy whose up
\* succeeded does not end failed
C15_RouteWriteFailureSwallowed ==
    (pc = "bd_done" /\ "publish_failed" \in Ran) => bd.status = "completed"

(***************************************************************************)
(* Properties of the routing files.                                        *)
(***************************************************************************)
\* the number of ports of a service_ports dictionary
RECURSIVE TotalPorts(_)
TotalPorts(service_ports) ==
    IF service_ports = <<>> THEN 0
    ELSE Len(Head(service_ports)[2]) + TotalPorts(Tail(service_ports))

\* the entries the naming rule asks for: one per service and port, the suffix
\* empty for a single port and the port's 1-based position otherwise
ExpectedEntries(deployment, ip, service_ports) ==
    UNION { { LET service == service_ports[k][1]
                  ports == service_ports[k][2]
                  name == deployment \o <<"-">> \o service
                            \o (IF Len(ports) = 1 THEN <<>> ELSE Str(j))
              IN  [name |-> name, host |-> name \o <<".">> \o base_url,
                   backend |-> [ip |-> ip, port |-> ports[j]]]
              : j \in 1..Len(service_ports[k][2]) }
            : k \in 1..Len(service_ports) }

\* the routing file of the running job's deployment
DeploymentName == generate_unique_name(args.workspace_id, args.user_id)
DeploymentFiles == {f \in routes : f.path = DeploymentName \o <<".", "t", "o", "m", "l">>}
Published == pc = "bd_done" /\ LastRan = "publish"

\* C16: a generate call emits exactly one routing entry per service and port,
\* named <deployment>-<service><suffix>, with host <name>.<base_url> and
\* backend http://<ip>:<port>
C16_OneEntryPerPort ==
    Published =>
        \A f \in DeploymentFiles :
            /\ f.config = ExpectedEntries(DeploymentName, bound.ip, services_ports)
            /\ Cardinality(f.config) = TotalPorts(services_ports)

\* C17: whatever generate calls were made for a deployment, there is one
\* routing file for it, it holds the entry set of one call and nothing of any
\* other, and right after a call it holds that call's entry set
C17_OneFileLatestEntries ==
    /\ \A f \in routes :
         /\ Cardinality({g \in routes : g.path = f.path}) = 1
         /\ \E k \in WsKeys, m \in PortMaps :
              LET g == generate_toml(generate_unique_name(k[2], k[1]),
                                     _generate_static_ip(VmNameOf(k[1], k[2]), SubnetHosts), m)
              IN  f.path = g.path /\ f.config = g.config
    /\ Published =>
         /\ Cardinality(DeploymentFiles) = 1
         /\ \A f \in DeploymentFiles :
              f.config = generate_toml(DeploymentName, bound.ip, services_ports).config

C17_Witness ==
    /\ Published
    /\ \E old \in bd.files_at_start, f \in DeploymentFiles :
         /\ old.path = f.path
         /\ old.config \ f.config # {}

(***************************************************************************)
(* Properties of the build-and-deploy job's record.                        *)
(***************************************************************************)
\* C18: a failed build ends the job failed, and the job's metadata carries the
\* server-error tag exactly when the classifier labelled the error
\* infrastructure
C18_BuildFailureTag ==
    Ran \cap {"build_failed", "build_raised"} # {} =>
        /\ pc = "bd_done" /\ bd.status = "failed"
        /\ bd.server_error <=> bd.label = "infrastructure"

\* C19: when a stage raises an unexpected exception the job ends failed and
\* its metadata holds the generic message only
C19_UnexpectedExceptionGeneric ==
    (pc = "bd_done" /\ LastRan \in {"upload_failed", "build_raised", "publish_failed"}) =>
        /\ bd.status = "failed"
        /\ bd.detail = "generic"

(***************************************************************************)
(* Properties of the derived names.                                        *)
(***************************************************************************)
\* at most 64 characters, all of them in [a-z0-9-]
NameOk(name) ==
    /\ Len(name) <= NameLimit
    /\ \A i \in 1..Len(name) : name[i] \in LowerCase \cup Digits \cup {"-"}

\* C20: the VM name, the context name and the project name of every tenant
\* and workspace, as the VMs, contexts and routing files in existence carry
\* them, are at most 64 characters long and made of [a-z0-9-] only
C20_NamesWellFormed ==
    \A k \in WsKeys :
        LET vm == get_user_vm_name(k[1], k[2], FALSE)
            context == generate_context_name_from_user_workspace(k[1], k[2])
            project == generate_project_name_from_user_workspace(k[1], k[2])
        IN  /\ cloud[vm].power # "absent" => NameOk(vm)
            /\ contexts[context] # NoIp => NameOk(context)
            /\ (\E f \in routes : f.path = project \o <<".", "t", "o", "m", "l">>) => NameOk(project)

(***************************************************************************)
(* Properties of the VM a workspace is bound to.                           *)
(***************************************************************************)
\* C21: the VM that the operations for a (tenant, workspace) work on is named
\* vm-<tenant>-<workspace>: every VM there is carries such a name
C21_VmNamePerWorkspace ==
    \A n \in VmNames :
        cloud[n].power # "absent" =>
            \E k \in WsKeys : n = get_user_vm_name(k[1], k[2], TRUE)

(***************************************************************************)
(* Properties of the static private IP.                                    *)
(***************************************************************************)
\* address ip lies among the usable hosts of subnet sn, the first StartIndex
\* of them left out; the address 10.0.0.x is the host of index x - 1 of a
\* subnet based at 10.0.0.0 and no host of any other subnet
InUsableRange(ip, sn) ==
    IF ip.net = "subnet"
    THEN ip.host \in StartIndex..(sn.hosts - 1)
    ELSE sn.base = "10.0.0.0" /\ (ip.host - 1) \in StartIndex..(sn.hosts - 1)

\* C22: for every subnet and VM name the static IP is the same on every call
\* and lies in the subnet's usable host range without its first 10 addresses,
\* on the fallback path too
C22_StaticIpInRange ==
    call.first # NoIp =>
        /\ InUsableRange(call.first, call.subnet)
        /\ call.second # NoIp => call.second = call.first

(***************************************************************************)
(* Properties of create, of the reads and of delete.                       *)
(***************************************************************************)
\* C23: create_spot_vm on a VM name that exists is a no-op: it issues no
\* create-or-update call, leaves the VM as it is and returns its details
C23_CreateOnExistingIsNoOp ==
    [][(pc = "create" /\ pc' # "create" /\ cloud[vm_name].power # "absent")
         => /\ issued' = issued
            /\ cloud' = cloud
            /\ pc' = "persist"
            /\ existing_vm' = CurrentRecord]_vars

\* C24: a read that fails is told apart from a VM that is not found, so that
\* allocate_or_reuse_vm takes the creation path only for a VM that was absent:
\* a call that found the VM existing never proceeds as if there were none
C24_TransientNotAbsence ==
    pre.power # "absent" =>
        /\ path # "create"
        /\ pc \in {"is_running", "start", "delete", "persist"} => existing_vm # None

\* C25: a delete that removed the VM has tried to delete the OS disk and the
\* NIC, whatever became of the other, and does not fail; a delete that could
\* not remove the VM is raised and changes nothing
C25_DeleteIndependentSubResources ==
    [][(pc = "delete" /\ pc' # "delete")
         => IF cloud'[vm_name].power = "absent"
            THEN /\ cloud'[vm_name].disk # "there"
                 /\ cloud'[vm_name].nic # "there"
                 /\ pc' = "create"
            ELSE cloud' = cloud /\ pc' = "raised"]_vars

C25_Witness ==
    /\ pc = "create" /\ issued # <<>> /\ issued[Len(issued)] = "delete"
    /\ cloud[vm_name].power = "absent"
    /\ cloud[vm_name].disk = "orphan" /\ cloud[vm_name].nic = "none"

(***************************************************************************)
(* C26: the wait for a VM to reach power state running terminates.  A turn *)
(* of the wait that reads the status 'running' before the timeout has      *)
(* elapsed returns; a turn that reads another status sleeps and waits on;  *)
(* once the timeout has elapsed the wait raises, which ends a create       *)
(* (raised to the caller, with the one create it issued and no other) and  *)
(* sends a start to the deletion of the VM; and every wait is left.        *)
(***************************************************************************)
Waiting == pc \in {"create_wait", "start_wait"}
WaitTurn == Waiting /\ (pc' # pc \/ waited' # waited)
Creates == Cardinality({i \in DOMAIN issued : issued[i] = "create"})

C26_WaitTerminates ==
    /\ [][WaitTurn =>
            /\ (waited < WaitTimeout /\ cloud[vm_name].power = "running" /\ faults' = faults)
                 => (pc' = "persist" /\ waited' = waited)
            /\ (waited < WaitTimeout /\ cloud[vm_name].power # "running")
                 => (pc' = pc /\ waited' = waited + PollInterval)
            /\ waited >= WaitTimeout
                 => /\ pc' = IF pc = "create_wait" THEN "raised" ELSE "delete"
                    /\ issued' = issued]_vars
    /\ [][pc = "raised" => (pc' \in {"raised", "idle"} /\ issued' \in {issued, <<>>})]_vars
    /\ [](Creates <= 1 /\ waited <= WaitTimeout)
    /\ Waiting ~> ~Waiting

\* a create whose VM did not run within the timeout has raised
C26_Witness ==
    /\ pc = "raised"
    /\ waited = WaitTimeout
    /\ Creates = 1
    /\ cloud[vm_name].power = "starting"

(***************************************************************************)
(* C27: set_context_for_user_workspace is idempotent.  Every call that     *)
(* reaches docker inspects for the context of the derived name first; it   *)
(* runs "docker context create" only when there was no such context; a     *)
(* call that did not raise leaves the context in existence and returns the *)
(* derived name; and a call that follows one for the same user and         *)
(* workspace that did not raise changes no context, runs no create and     *)
(* returns the same name.                                                  *)
(***************************************************************************)
CallName == generate_context_name_from_user_workspace(call.username, call.workspace_name)
SetReturned == call.op = "set" /\ call.raised = "none"

C27_EnsureContextIdempotent ==
    /\ [](call.op = "set" =>
            /\ call.commands # <<>> => call.commands[1] = "inspect"
            /\ (\E i \in DOMAIN call.commands : call.commands[i] = "create")
                 => call.before[CallName] = NoIp
            /\ call.raised = "none" =>
                 /\ contexts[CallName] # NoIp
                 /\ call.context.context_name = CallName
                 /\ \A c \in ContextNames \ {CallName} : contexts[c] = call.before[c])
    /\ [][(/\ SetReturned
           /\ call' # call
           /\ call'.op = "set"
           /\ call'.username = call.username
           /\ call'.workspace_name = call.workspace_name)
          => /\ contexts' = contexts
             /\ call'.commands \in {<<>>, <<"inspect">>}
             /\ call'.raised = "none" => call'.context.context_name = call.context.context_name]_vars

\* a second call in a row for a workspace found the context of the first
C27_Witness ==
    /\ SetReturned
    /\ call.before[CallName] # NoIp
    /\ call.commands = <<"inspect">>
    /\ call.before = contexts

(***************************************************************************)
(* C28: a call of set_context_for_user_workspace whose "docker context     *)
(* create" failed raises DockerContextSetException, and no call of it,     *)
(* returning or raising, changes the vm_config a workspace has persisted.  *)
(***************************************************************************)
CreateFailed ==
    /\ call.op = "set"
    /\ call.commands = <<"inspect", "create">>
    /\ contexts[CallName] = NoIp

C28_ContextSetFailureKeepsVmRecord ==
    /\ [](CreateFailed => (call.raised = "DockerContextSetException" /\ contexts = call.before))
    /\ [](call.raised = "DockerContextSetException" => CreateFailed)
    /\ [][(call' # call /\ call'.op = "set") => workspaces' = workspaces]_vars

\* a creation failed for a workspace whose VM record is persisted
C28_Witness ==
    /\ CreateFailed
    /\ call.raised = "DockerContextSetException"
    /\ workspaces[<<call.username, call.workspace_name>>] # None

(***************************************************************************)
(* C29: remove_context_for_user_workspace undoes                           *)
(* set_context_for_user_workspace.  After a call of set_context that did   *)
(* not raise the context of the derived name exists, and after a call of   *)
(* remove_context for the same user and workspace that follows it the      *)
(* context does not exist, remove_context having returned True.            *)
(***************************************************************************)
C29_RemoveUndoesEnsure ==
    /\ [](SetReturned => contexts[CallName] # NoIp)
    /\ [][(/\ SetReturned
           /\ call'.op = "rm"
           /\ call'.username = call.username
           /\ call'.workspace_name = call.workspace_name)
          => /\ contexts'[CallName] = NoIp
             /\ call'.returned
             /\ \A c \in ContextNames \ {CallName} : contexts'[c] = contexts[c]]_vars

\* the context set_context created has been removed
C29_Witness ==
    /\ call.op = "rm"
    /\ call.returned
    /\ call.before[CallName] # NoIp
    /\ contexts[CallName] = NoIp

(***************************************************************************)
(* C30: a deploy leaves on the VM what a single deploy leaves, however     *)
(* many came before it.  When the job has ended and its deploy command     *)
(* ("up -d --build") exited with 0 on the running VM, the VM holds one set *)
(* of the project's containers and one image of the project: the cleanup   *)
(* of the run has removed what earlier runs left.                          *)
(***************************************************************************)
Deployed == pc = "bd_done" /\ "up" \in Ran /\ cloud[vm_name].power = "running"

C30_DeployTwiceSameAsOnce ==
    Deployed => (cloud[vm_name].containers = 1 /\ cloud[vm_name].images = 1)

(***************************************************************************)
(* WorkspaceRepository: the stored workspaces and the route that creates   *)
(* them.  A request awaits find_one and then insert_one, and other         *)
(* requests run between the two.                                           *)
(***************************************************************************)
Usernames == Users \cup {<<"A", "l">>}
WorkspaceNames == Workspaces \cup {<<"b", "l", "o", "g">>, <<"l", "o", "g">>}

RECURSIVE IgnoreCase(_)
\* what the "i" option of the $regex query compares: the name without its case
IgnoreCase(s) ==
    IF s = <<>> THEN <<>> ELSE <<LowerChar(Head(s))>> \o IgnoreCase(Tail(s))

\* the query {"username": username, "workspace_name": {"$regex": "^name$", "$options": "i"}}
Matches(doc, username, workspace_name) ==
    /\ doc.username = username
    /\ IgnoreCase(doc.workspace_name) = IgnoreCase(workspace_name)

NoDoc == [username |-> <<>>, workspace_name |-> <<>>]

\* user_workspace_collection.find_one(query): the first stored document that matches
find_one(collection, username, workspace_name) ==
    LET hits == {i \in 1..Len(collection) : Matches(collection[i], username, workspace_name)}
    IN IF hits = {} THEN NoDoc
       ELSE collection[CHOOSE i \in hits : \A j \in hits : i <= j]

\* WorkspaceRepository.get_workspace(username, workspace_name)
get_workspace(collection, username, workspace_name) ==
    find_one(collection, username, workspace_name)

\* what WorkspaceController.create_workspace raises for what the repository raised
ControllerRaises(raised) ==
    IF raised = "none" THEN "none" ELSE "WorkspaceCreationFailedException"

\* the exception classes that are a ValueError
IsValueError(raised) == raised = "ValueError"

\* the status the route create_workspace answers with
StatusCode(raised) ==
    IF raised = "none" THEN 200
    ELSE IF IsValueError(raised) THEN 400
    ELSE 500

\* POST /api/workspaces arrives
CreateWorkspaceRequest(r, username, workspace_name) ==
    /\ requests[r].pc = "none"
    /\ requests' = [requests EXCEPT ![r] = [NoRequest EXCEPT !.pc = "find",
                                               !.username = username,
                                               !.workspace_name = workspace_name]]
    /\ UNCHANGED <<user_workspace_collection, other, aux, cloud, workspaces, pc, args,
                   existing_vm, path, result, issued, pre, job, probe, pipe>>

\* WorkspaceRepository.create_workspace up to its check: a workspace found raises
\* WorkspaceAlreadyExistsException, which the controller wraps and the route answers
CreateWorkspaceFind(r) ==
    /\ requests[r].pc = "find"
    /\ LET existing == find_one(user_workspace_collection, requests[r].username,
                                requests[r].workspace_name) # NoDoc
       IN requests' = [requests EXCEPT ![r] =
              IF existing
              THEN [@ EXCEPT !.pc = "responded", !.existing = TRUE,
                             !.status_code =
                                 StatusCode(ControllerRaises("WorkspaceAlreadyExistsException"))]
              ELSE [@ EXCEPT !.pc = "insert"]]
    /\ UNCHANGED <<user_workspace_collection, other, aux, cloud, workspaces, pc, args,
                   existing_vm, path, result, issued, pre, job, probe, pipe>>

\* WorkspaceRepository.create_workspace from insert_one on, and the answer of the route
CreateWorkspaceInsert(r) ==
    /\ requests[r].pc = "insert"
    /\ user_workspace_collection' =
           Append(user_workspace_collection,
                  [username |-> requests[r].username,
                   workspace_name |-> requests[r].workspace_name])
    /\ requests' = [requests EXCEPT ![r] =
           [@ EXCEPT !.pc = "responded", !.status_code = StatusCode(ControllerRaises("none"))]]
    /\ UNCHANGED <<other, aux, cloud, workspaces, pc, args,
                   existing_vm, path, result, issued, pre, job, probe, pipe>>

\* GET /api/workspaces/{username}/{workspace_name}, made on its own
GetWorkspace(username, workspace_name) ==
    /\ call' = [op |-> "get", username |-> username, workspace_name |-> workspace_name,
                found |-> get_workspace(user_workspace_collection, username, workspace_name)]
    /\ UNCHANGED <<more, faults, waited, cloud, workspaces, pc, args,
                   existing_vm, path, result, issued, pre, job, probe, pipe>>

NoLookup == [op |-> "none", username |-> <<>>, workspace_name |-> <<>>, found |-> NoDoc]

WorkspaceInit == Fresh /\ call = NoLookup /\ faults = 0

WorkspaceNext ==
    \/ \E r \in Requests, username \in Usernames, workspace_name \in WorkspaceNames :
           CreateWorkspaceRequest(r, username, workspace_name)
    \/ \E r \in Requests : CreateWorkspaceFind(r)
    \/ \E r \in Requests : CreateWorkspaceInsert(r)
    \/ \E username \in Usernames, workspace_name \in WorkspaceNames :
           GetWorkspace(username, workspace_name)

\* concurrent create-workspace requests and lookups
WorkspaceSpec == WorkspaceInit /\ [][WorkspaceNext]_vars

(***************************************************************************)
(* C31: a request to create a workspace whose (username, workspace_name)   *)
(* is already stored, the workspace name compared without its case, is     *)
(* answered with HTTP 400.                                                 *)
(***************************************************************************)
Rejected(r) == requests[r].pc = "responded" /\ requests[r].existing

C31_DuplicateCreateAnswers400 ==
    \A r \in Requests : Rejected(r) => requests[r].status_code = 400

\* C31, the rest: a rejected request has stored nothing, and a lookup under any case of
\* the name finds a stored workspace of that name
C31_DuplicateCreateStoresNothing ==
    /\ [][\A r \in Requests :
             (~Rejected(r) /\ Rejected(r)')
                 => user_workspace_collection' = user_workspace_collection]_vars
    /\ [][(call' # call /\ call'.op = "get")
              => \A i \in 1..Len(user_workspace_collection) :
                     Matches(user_workspace_collection[i], call'.username, call'.workspace_name)
                         => /\ call'.found # NoDoc
                            /\ Matches(call'.found, call'.username, call'.workspace_name)]_vars

(***************************************************************************)
(* C36: however the create-workspace requests interleave, the stored       *)
(* workspaces hold at most one document per (username, workspace name      *)
(* without its case).                                                      *)
(***************************************************************************)
C36_OneRecordPerWorkspace ==
    \A i, j \in 1..Len(user_workspace_collection) :
        Matches(user_workspace_collection[i], user_workspace_collection[j].username,
                user_workspace_collection[j].workspace_name) => i = j

(***************************************************************************)
(* The deploy command, as generate_deploy_command puts it together.        *)
(***************************************************************************)
\* generate_deploy_command(compose_file, project_name, env_file_arg, context_name): the
\* parts of the command, in order; an argument not given is <<>>
generate_deploy_command(compose_file, project_name, env_file_arg, context_name) ==
    <<"docker">>
    \o (IF context_name # <<>> THEN <<"--context", context_name>> ELSE <<>>)
    \o <<"compose", "-f", compose_file, "-p", project_name>>
    \o (IF env_file_arg # <<>> THEN <<env_file_arg>> ELSE <<>>)
    \o <<"up", "-d", "--build">>

\* the deploy command of the running job (remote utils lines 133-138)
DeployCommand ==
    generate_deploy_command(<<"docker-compose.yml">>,
                            generate_unique_name(args.workspace_id, args.user_id),
                            <<>>, bound.context_name)

(***************************************************************************)
(* C32: the deploy stage never triggers a build: once the stage has run    *)
(* its "up" command, that command was one that does not build; images are  *)
(* built by the build stage alone, and "up" leaves the images of the VM as *)
(* they were.                                                              *)
(***************************************************************************)
C32_DeployNeverBuilds ==
    [][(pc = "bd_up" /\ pc' # "bd_up")
          => /\ \A i \in 1..Len(DeployCommand) : DeployCommand[i] # "--build"
             /\ cloud'[vm_name].images = cloud[vm_name].images]_vars

(***************************************************************************)
(* C33: a build-and-deploy job that has ended went from pending through    *)
(* running to one terminal status: its status writes are one or more       *)
(* "running" and then a single "completed" or "failed", nothing after it;  *)
(* and it is completed only if the upload succeeded and the build and the  *)
(* deploy commands exited with 0.                                          *)
(***************************************************************************)
Terminal == {"completed", "failed"}

\* the writes are some "running" and then one terminal status
OneTerminalWrite ==
    /\ bd.writes # <<>>
    /\ bd.writes[Len(bd.writes)] \in Terminal
    /\ \A i \in 1..(Len(bd.writes) - 1) : bd.writes[i] = "running"

ThroughRunning == Len(bd.writes) >= 2

CompletedOnlyAfterSuccess ==
    bd.status = "completed" => {"upload", "build", "up"} \subseteq Ran

C33_JobStatusProtocol ==
    pc = "bd_done" => OneTerminalWrite /\ ThroughRunning /\ CompletedOnlyAfterSuccess

(***************************************************************************)
(* C34: the ensure-VM job only creates a VM where none exists and only     *)
(* starts one that is stopped: a job triggered without a request body for  *)
(* a workspace whose VM exists and is running issues no delete and no      *)
(* create, and the VM is the one there was.                                *)
(***************************************************************************)
JobWithoutBody == args.caller = "job" /\ args.force_recreate

C34_EnsureJobKeepsRunningVm ==
    (JobWithoutBody /\ pre.power = "running")
        => /\ \A i \in 1..Len(issued) : issued[i] \notin {"delete", "create"}
           /\ cloud[vm_name].gen = pre.gen

(***************************************************************************)
(* SpotVMManager.delete_user_vm, called on its own.                        *)
(***************************************************************************)
\* SpotVMCreator.clear_workspace_vm_config(username, workspace_name): the vm_config of
\* the workspace set to None; a failed write is logged and reported as False
clear_workspace_vm_config(key, cleared) ==
    IF cleared THEN [workspaces EXCEPT ![key] = None] ELSE workspaces

\* delete_user_vm(user_id, workspace_id), with the outcomes of its deletions and of the
\* write: True at once when the VM does not exist, False when delete_spot_vm raises,
\* True after the vm_config was cleared or failed to be
delete_user_vm(user_id, workspace_id, deleted, disk, nic, cleared) ==
    LET name == VmNameOf(user_id, workspace_id)
        d == delete_spot_vm(cloud[name], deleted, disk, nic)
    IN  IF ~vm_exists(name, TRUE)
        THEN [returned |-> TRUE, cloud |-> cloud, workspaces |-> workspaces]
        ELSE IF d.raised
        THEN [returned |-> FALSE, cloud |-> cloud, workspaces |-> workspaces]
        ELSE [returned |-> TRUE, cloud |-> [cloud EXCEPT ![name] = d.vm],
              workspaces |-> clear_workspace_vm_config(<<user_id, workspace_id>>, cleared)]

NoDeleteCall ==
    [op |-> "none", user_id |-> <<>>, workspace_id |-> <<>>, existed |-> FALSE,
     returned |-> FALSE, calls |-> 0]

\* a call of delete_user_vm while no other operation runs
DeleteUserVm(user_id, workspace_id) ==
    /\ pc = "idle"
    /\ \E deleted, disk, nic, cleared \in BOOLEAN :
         LET d == delete_user_vm(user_id, workspace_id, deleted, disk, nic, cleared)
         IN  /\ deleted \/ (disk /\ nic)
             /\ cloud' = d.cloud
             /\ workspaces' = d.workspaces
             /\ call' = [op |-> "delete_user_vm", user_id |-> user_id,
                         workspace_id |-> workspace_id,
                         existed |-> vm_exists(VmNameOf(user_id, workspace_id), TRUE),
                         returned |-> d.returned, calls |-> (call.calls + 1) % 2]
    /\ UNCHANGED <<more, pc, args, existing_vm, path, result, issued, pre, job, probe, pipe,
                   faults, waited>>

DeleteInit ==
    /\ Fresh
    /\ call = NoDeleteCall
    /\ faults = 0

DeleteNext ==
    \/ \E k \in WsKeys, force \in BOOLEAN : AllocateOrReuseVm(k[1], k[2], force)
    \/ Allocate
    \/ \E k \in WsKeys : DeleteUserVm(k[1], k[2])

\* allocations and deletions of a workspace's VM, one after the other
DeleteSpec == DeleteInit /\ [][DeleteNext]_vars

(***************************************************************************)
(* C37: when delete_user_vm has returned True the workspace's persisted    *)
(* vm_config is cleared, whether the VM still existed or not.              *)
(***************************************************************************)
C37_DeleteClearsVmConfig ==
    [][(call' # call /\ call'.returned)
          => workspaces'[<<call'.user_id, call'.workspace_id>>] = None]_vars

(***************************************************************************)
(* C38: when allocate_or_reuse_vm has failed after deleting the VM there   *)
(* was (force_recreate, or a start that failed, and then a create that     *)
(* failed), the persisted vm_config no longer describes the deleted VM: a  *)
(* later deploy finds no address to bind a context to.                     *)
(***************************************************************************)
FailedAfterDelete ==
    /\ pc = "raised"
    /\ \E i \in 1..Len(issued) : issued[i] = "delete"
    /\ cloud[vm_name].power = "absent"

C38_NoRecordOfDeletedVm ==
    FailedAfterDelete => workspaces[wsKey].private_ip = NoIp

(***************************************************************************)
(* Two tenants whose workspaces derive the same Docker context name:       *)
(* extract_user_id keeps what comes before the "@" of the username, the VM *)
(* name every alphanumeric character of it.                                *)
(***************************************************************************)
Tenants == Users \cup {<<"A", "l", "@", "l">>}
TenantKeys == Tenants \X Workspaces

TenantInit ==
    /\ cloud = [n \in {VmNameOf(k[1], k[2]) : k \in TenantKeys} |-> NoVm]
    /\ workspaces = [k \in TenantKeys |-> None]
    /\ contexts = [c \in {generate_context_name_from_user_workspace(k[1], k[2]) :
                             k \in TenantKeys} |-> NoIp]
    /\ pc = "idle" /\ args = NoArgs /\ existing_vm = None /\ path = "none"
    /\ result = NoResult /\ issued = <<>> /\ pre = NoVm /\ job = NoJob /\ probe = NoProbe
    /\ routes = {} /\ bd = NoBuildDeploy /\ ran = <<>> /\ bound = NoContext
    /\ services_ports = <<>> /\ waited = 0 /\ faults = 0
    /\ user_workspace_collection = <<>>
    /\ requests = [r \in Requests |-> NoRequest]
    /\ other = NoOther
    /\ call = NoContextCall

TenantNext ==
    \/ \E k \in TenantKeys : AllocateOrReuseVm(k[1], k[2], FALSE)
    \/ Allocate
    \/ \E k \in TenantKeys : SetContextForUserWorkspace(k[1], k[2])
    \/ \E k \in TenantKeys : RemoveContextForUserWorkspace(k[1], k[2])

\* allocations and context calls for the workspaces of two tenants
TenantSpec == TenantInit /\ [][TenantNext]_vars

(***************************************************************************)
(* C39: whenever set_context_for_user_workspace returns {context_name, ip} *)
(* the Docker context of that name points at the returned ip, also when a  *)
(* context of that name was there before the call.                         *)
(***************************************************************************)
C39_ContextPointsAtReturnedIp ==
    [][(call' # call /\ call'.op = "set" /\ call'.raised = "none")
          => contexts'[call'.context.context_name] = call'.context.ip]_vars

(***************************************************************************)
(* C40: within one call of generate_toml two different (service, port      *)
(* position) pairs never get the same entry name or the same hostname: the *)
(* file of a published deployment holds as many entries as the services    *)
(* have ports, a multi-port "api" next to a single-port "api1" included.   *)
(***************************************************************************)
C40_EntryNamesDistinct ==
    Published =>
        LET entries == AllEntries(DeploymentName, bound.ip, services_ports)
        IN  /\ \A i, j \in 1..Len(entries) :
                  i # j => entries[i].name # entries[j].name /\ entries[i].host # entries[j].host
            /\ \A f \in DeploymentFiles : Cardinality(f.config) = Len(entries)

(***************************************************************************)
(* Two invocations of allocate_or_reuse_vm for the same workspace on one   *)
(* event loop.  The calls to the cloud block the loop; an invocation gives *)
(* way to the other where it awaits I/O: in _perform_vm_docker_cleanup,    *)
(* which awaits the workspace's row and the cleanup commands, before it    *)
(* returns.  'other' holds the locals of the invocation that is not        *)
(* running.                                                                *)
(***************************************************************************)
\* where an invocation can be while the other runs: not begun or ended, or awaiting
\* in its cleanup
Suspendable == {"idle", "cleanup"}

\* the event loop turns to the other invocation
Switch ==
    /\ pc \in Suspendable
    /\ other.pc \in Suspendable
    /\ pc # "idle" \/ other.pc # "idle"
    /\ other' = [pc |-> pc, args |-> args, existing_vm |-> existing_vm, path |-> path,
                 result |-> result, issued |-> issued, pre |-> pre]
    /\ pc' = other.pc
    /\ args' = other.args
    /\ existing_vm' = other.existing_vm
    /\ path' = other.path
    /\ result' = other.result
    /\ issued' = other.issued
    /\ pre' = other.pre
    /\ UNCHANGED <<aux, user_workspace_collection, requests, cloud, workspaces, job, probe, pipe>>

RaceInit == Fresh /\ call = NoCall /\ faults = 0

RaceNext ==
    \/ \E k \in WsKeys, force \in BOOLEAN : AllocateOrReuseVm(k[1], k[2], force)
    \/ Allocate
    \/ Switch

\* two invocations for one workspace, interleaved where they await
RaceSpec == RaceInit /\ [][RaceNext]_vars

(***************************************************************************)
(* C35: however two allocate_or_reuse_vm invocations for the same          *)
(* workspace interleave, an invocation that returns returns the details of *)
(* a VM that exists and is running at the moment it returns, never the     *)
(* address of a VM the other invocation has deleted.                       *)
(***************************************************************************)
C35_ReturnsRunningVm ==
    [][(pc # "returned" /\ pc' = "returned")
          => /\ cloud'[vm_name].power = "running"
             /\ result'.ip = cloud'[vm_name].ip]_vars
====
